---- MODULE Spec2Model ----
(***************************************************************************)
(* A model of the Krita ComfyUI enhancer: the job client's polling loop    *)
(* (comfy/comfyui_client.py) and the run orchestrator that drives it       *)
(* (comfy/comfyui_enhancer.py).                                            *)
(*                                                                         *)
(* PollSpec is one poll_result call of a client with arbitrary timing      *)
(* configuration; PollLive is the same with the call scheduled fairly.     *)
(* Spec is the enhancer's handler _on_enhance_clicked with _run_enhance,   *)
(* the polls it issues and the stop clicks delivered at its yield points.  *)
(***************************************************************************)
EXTENDS Integers, Sequences, FiniteSets, TLC

\* ----------------------------------------------------------------- bounds
\* largest max_poll_time a client is configured with (clock units)
MaxPollTime == 3
\* largest poll_interval a client is configured with (clock units, >= 1)
MaxInterval == 2
\* longest time one status GET takes (clock units)
MaxLatency == 1
\* max_poll_time of the client a run creates, scaled down from its default
\* of 180 poll intervals
RunPollTime == 2
\* most regions a selection yields
MaxRegions == 2
\* largest x coordinate of a region
MaxX == 2
\* most regions of a selection in the runs of OrderSpec
OrderRegions == 5
\* most nodes of a workflow document
MaxNodes == 2
\* most segments of an override target
MaxSegments == 3
\* most overrides of a batch
MaxBatch == 2
\* width and height of the selection masks segmented
MaskWidth == 3
MaskHeight == 3
\* side of the largest image that is faded, in pixels
MaxImage == 5
\* side of the layer a hole is punched into, in pixels
LayerSide == 4
\* most entries of the input sequence of a node that is compiled
MaxInputs == 2
\* poll_interval of the client a run creates (the constructor's default)
DefaultPollInterval == 1
\* index of the last of the four region prompts
LastPromptSlot == 3
\* max_components of _extract_mask_components
MaxComponents == 32

VARIABLES
    \* ---- ComfyUIClient configuration and one poll_result activation
    poll_interval,      \* self.poll_interval
    max_poll_time,      \* self.max_poll_time
    has_stop,           \* stop_requested argument is not None
    has_tick,           \* tick argument is not None
    pc,                 \* position in poll_result ("off": no call is active)
    now,                \* time.time(), counted from the start of the poll_result call
    deadline,           \* local deadline
    pending_logged,     \* local pending_logged
    raw,                \* answer of the last status GET
    status_class,       \* local status: the class _extract_status gave it
    result,             \* value returned by poll_result
    raised,             \* exception poll_result ended with
    iter_events,        \* calls made in the current loop iteration, in order
    last_sleep,         \* duration of the last time.sleep
    stop_in_tick,       \* the flag was set by a stop click inside tick()
    slept_after_stop,   \* a time.sleep began after that stop click
    all_pending,        \* every answer so far was pending or 404
    \* ---- ComfyUIEnhancer
    cancel_requested,   \* self._cancel_requested
    running,            \* stop button enabled (set_running)
    status,             \* text last given to _set_status
    interrupted,        \* an interrupt request went to the server
    stop_seen,          \* the flag was set at some point of the current run
    \* ---- one activation of _on_enhance_clicked / _run_enhance
    run_pc,             \* position in the handler
    regions_only,       \* argument regions_only
    has_doc,            \* Krita has an active document
    wf_global,          \* global_workflow_path is non-empty
    wf_region,          \* region_workflow_path is non-empty
    region_rects,       \* local region_rects (x of each rectangle)
    region_exports,     \* number of entries of local region_exports
    idx,                \* loop variable idx, 1-based
    temp_files,         \* local temp_files
    disk,               \* temporary input files of this run that exist
    global_layer,       \* local global_layer is a layer
    exit_kind,          \* how the try block was left
    run_exc,            \* exception leaving _run_enhance
    events,             \* submissions, poll ends, insertions and punches, in order
    \* ---- one activation of WorkflowParser.apply_parameters
    parser_pc,          \* position in apply_parameters, or in the _inject_image
                        \* before it ("off": no call is active)
    workflow,           \* argument workflow, modified in place
    workflow_given,     \* the workflow as it was when the call began
    parameters,         \* argument parameters
    param_pos,          \* position of the loop over parameters, 1-based
    parser_log,         \* what each override of the loop ended with, in order
    \* ---- one activation of ComfyUIEnhancer._extract_mask_components
    seg_pc,             \* position in _extract_mask_components ("off": no call)
    bounds,             \* locals x0, y0, width, height
    buf,                \* local buf, the bytes of selection.pixelData
    visited,            \* local visited: the pixel indexes marked
    seg_idx,            \* loop variable idx of the scan
    components,         \* local components
    \* ---- one activation of _apply_edge_fade or _punch_hole_on_layer
    fade_pc,            \* "edge_fade", "punch_hole": the call begins; "returned"
    surface,            \* the image, or the layer: width, height and its bytes
    rect,               \* argument rect of _punch_hole_on_layer
    fade_ratio,         \* argument fade_ratio, a fraction num / den
    pixel_data,         \* what layer.pixelData does: "data", "empty", "raise"
    \* ---- one activation of ComfyUIClient.poll_once
    once_pc,            \* "call": the call begins; "returned"; "raised"
    server_answer,      \* what the status GET of this task gives
    once_result,        \* the pair poll_once returned: status and data
    once_raised,        \* exception poll_once ended with
    once_calls,         \* the requests and sleeps of poll_once, in order
    \* ---- one activation of WorkflowParser.to_prompt on the workflow
    compile_pc,         \* "call": the call begins; "returned"
    prompt,             \* the prompt dict to_prompt returned
    \* ---- one activation of ComfyUIEnhancer._get_region_rectangles
    rects_pc,           \* "call": the call begins; "components"; "returned"
    selection,          \* what the selection object offers beside its pixels
    region_list,        \* local rects
    tier_used,          \* the part of the function that filled rects
    \* ---- history
    stopped_before      \* a stop or cancel request was made before the current
                        \* run began

cfgVars == <<poll_interval, max_poll_time, has_stop, has_tick>>
pollVars == <<pc, now, deadline, pending_logged, raw, status_class, result, raised,
              iter_events, last_sleep, stop_in_tick, slept_after_stop, all_pending>>
uiVars == <<cancel_requested, running, status, interrupted, stop_seen>>
runVars == <<run_pc, regions_only, has_doc, wf_global, wf_region, region_rects,
             region_exports, idx, temp_files, disk, global_layer, exit_kind, run_exc,
             events>>
parserVars == <<parser_pc, workflow, workflow_given, parameters, param_pos,
                parser_log>>
\* the state of the library parts an enhancer run leaves alone
segVars == <<seg_pc, bounds, buf, visited, seg_idx, components>>
fadeVars == <<fade_pc, surface, rect, fade_ratio, pixel_data>>
onceVars == <<once_pc, server_answer, once_result, once_raised, once_calls>>
compileVars == <<compile_pc, prompt>>
rectsVars == <<rects_pc, selection, region_list, tier_used>>
histVars == <<stopped_before>>
libVars == <<parserVars, segVars, fadeVars, onceVars, compileVars, rectsVars,
            histVars>>
\* what a call of the parser, of the segmenter, of the fade and the punch, and
\* of poll_once leaves alone
enhancerVars == <<cfgVars, pollVars, uiVars, runVars>>
notParserVars == <<enhancerVars, segVars, fadeVars, onceVars, compileVars,
    rectsVars, histVars>>
notSegVars == <<enhancerVars, parserVars, fadeVars, onceVars, compileVars,
    rectsVars, histVars>>
notFadeVars == <<enhancerVars, parserVars, segVars, onceVars, compileVars,
    rectsVars, histVars>>
notOnceVars == <<enhancerVars, parserVars, segVars, fadeVars, compileVars,
    rectsVars, histVars>>
notCompileVars == <<enhancerVars, parserVars, segVars, fadeVars, onceVars,
    rectsVars, histVars>>
\* what _get_region_rectangles leaves alone beside the segmenter it calls
notRectsVars == <<enhancerVars, parserVars, fadeVars, onceVars, compileVars,
    histVars>>
vars == <<cfgVars, pollVars, uiVars, runVars, libVars>>

\* ------------------------------------------------------- status answers
\* value of payload["status"]["status"]; "absent" when the block or key is missing
StatusValues == {"absent", "success", "ok", "completed", "error", "failed", "running"}
\* payload["outputs"]: missing, empty, non-empty with a locatable image file,
\* non-empty without one
OutputsValues == {"absent", "empty", "images", "noimages"}
\* a JSON body of the history endpoint; wrapped = stored under the task id key
Payloads == [wrapped : BOOLEAN, status : StatusValues, outputs : OutputsValues,
             prompt_id : {"none"}]
NoBody == [wrapped |-> FALSE, status |-> "absent", outputs |-> "absent",
           prompt_id |-> "none"]
\* what _get_json does: returns a body, raises HTTPError(code), or raises
\* another exception (URLError, socket timeout, invalid JSON)
Answers ==
    [kind : {"json"}, code : {200}, body : Payloads]
    \cup [kind : {"http"}, code : {404, 500}, body : {NoBody}]
    \cup [kind : {"other"}, code : {0}, body : {NoBody}]
NoAnswer == [kind |-> "none", code |-> 0, body |-> NoBody]
\* the answers of the server of a run: history entries stored under the task
\* id, one of each class of status and outputs, and each kind of failure
RunAnswers ==
    {a \in Answers : a.kind = "json" =>
        /\ a.body.wrapped
        /\ a.body.status \in {"absent", "success", "error"}
        /\ a.body.outputs \in {"absent", "images", "noimages"}}

\* the task id polled
TaskId == "t1"

\* _unwrap_history: an entry stored under the task id is taken out and stamped
\* with the id; any other payload is returned as it is
UnwrapHistory(payload) ==
    IF payload.wrapped
    THEN [wrapped |-> FALSE, status |-> payload.status, outputs |-> payload.outputs,
          prompt_id |-> IF payload.prompt_id = "none" THEN TaskId
                        ELSE payload.prompt_id]
    ELSE payload

ExtractStatusExplicitOnly(payload) ==
    IF payload.wrapped THEN "pending"
    ELSE IF payload.status \in {"success", "ok", "completed"} THEN "done"
    ELSE IF payload.status \in {"error", "failed"} THEN "error"
    ELSE "pending"

ExtractStatusOutputsFirst(payload) ==
    IF payload.wrapped THEN "pending"
    ELSE IF payload.outputs \in {"images", "noimages"} THEN "done"
    ELSE IF payload.status \in {"success", "ok", "completed"} THEN "done"
    ELSE IF payload.status \in {"error", "failed"} THEN "error"
    ELSE "pending"

\* _extract_status: a payload still wrapped has neither key at its top level
ExtractStatus(payload) ==
    IF payload.wrapped THEN "pending"
    ELSE IF payload.status \in {"success", "ok", "completed"} THEN "done"
    ELSE IF payload.status \in {"error", "failed"} THEN "error"
    ELSE IF payload.outputs \in {"images", "noimages"} THEN "done"
    ELSE "pending"

\* exceptions poll_result ends with
ExcCancelled == "RuntimeError: Cancelled by user"
ExcRemote == "RuntimeError: ComfyUI reported an error"
ExcTimeout == "TimeoutError: Timeout while waiting for result"
ExcHttp == "HTTPError"
ExcOther == "URLError"

ToleratedAnyHttp(ans) == ans.kind = "http"

\* except error.HTTPError as exc: if exc.code == 404
Tolerated(ans) == ans.kind = "http" /\ ans.code = 404

LoopConditionInclusive(t, d) == t <= d

\* while time.time() < deadline
LoopCondition(t, d) == t < d

SleepNoAdvance(t, d) == t

\* time.sleep(d) as seen by time.time()
AfterSleep(t, d) == t + d

\* ------------------------------------------------------------ the enhancer
\* _on_stop_clicked, run by the event loop when the stop button is pressed
StopClicked ==
    /\ cancel_requested' = TRUE
    /\ status' = "Stopping..."
    /\ interrupted' = TRUE
    /\ stop_seen' = TRUE
    /\ UNCHANGED running

\* _yield_ui: processEvents delivers a stop click, if the button is enabled
\* and was pressed, and nothing else that touches the enhancer
YieldUi(click) ==
    IF click /\ running THEN StopClicked ELSE UNCHANGED uiVars

\* ------------------------------------------------------------- poll_result
\* lines 49-53
PollStart ==
    /\ pc = "idle"
    /\ deadline' = now + max_poll_time
    /\ pending_logged' = FALSE
    /\ pc' = "loop"
    /\ UNCHANGED <<now, raw, status_class, result, raised, iter_events, last_sleep,
                   stop_in_tick, slept_after_stop, all_pending>>
    /\ UNCHANGED <<libVars, cfgVars, uiVars, runVars>>

\* line 54, and line 86 when the loop is left
PollLoopCheck ==
    /\ pc = "loop"
    /\ IF LoopCondition(now, deadline)
       THEN /\ pc' = "stop"
            /\ iter_events' = <<>>
            /\ UNCHANGED raised
       ELSE /\ pc' = "raised"
            /\ raised' = ExcTimeout
            /\ UNCHANGED iter_events
    /\ UNCHANGED <<now, deadline, pending_logged, raw, status_class, result,
                   last_sleep, stop_in_tick, slept_after_stop, all_pending>>
    /\ UNCHANGED <<libVars, cfgVars, uiVars, runVars>>

PollStopCheckSkipped ==
    /\ pc = "stop"
    /\ pc' = "tick"
    /\ UNCHANGED <<now, deadline, pending_logged, raw, status_class, result, raised,
                   iter_events, last_sleep, stop_in_tick, slept_after_stop,
                   all_pending>>
    /\ UNCHANGED <<libVars, cfgVars, uiVars, runVars>>

\* lines 55-56
PollStopCheck ==
    /\ pc = "stop"
    /\ IF has_stop
       THEN /\ iter_events' = Append(iter_events, "stop_requested")
            /\ IF cancel_requested
               THEN pc' = "raised" /\ raised' = ExcCancelled
               ELSE pc' = "tick" /\ UNCHANGED raised
       ELSE /\ pc' = "tick"
            /\ UNCHANGED <<iter_events, raised>>
    /\ UNCHANGED <<now, deadline, pending_logged, raw, status_class, result,
                   last_sleep, stop_in_tick, slept_after_stop, all_pending>>
    /\ UNCHANGED <<libVars, cfgVars, uiVars, runVars>>

\* lines 57-61: tick is the enhancer's _yield_ui; what it raises is swallowed
PollTick ==
    /\ pc = "tick"
    /\ pc' = "get"
    /\ IF has_tick
       THEN /\ iter_events' = Append(iter_events, "tick")
            /\ \E click \in BOOLEAN :
                 /\ YieldUi(click)
                 /\ stop_in_tick' = (stop_in_tick \/ (click /\ running))
       ELSE UNCHANGED <<iter_events, stop_in_tick, uiVars>>
    /\ UNCHANGED <<now, deadline, pending_logged, raw, status_class, result, raised,
                   last_sleep, slept_after_stop, all_pending>>
    /\ UNCHANGED <<libVars, cfgVars, runVars>>

\* lines 62-83: the status GET, its unwrapping and classification, for a
\* server that gives one of `answers` after one of `latencies`
PollGetFrom(answers, latencies) ==
    /\ pc = "get"
    /\ \E ans \in answers, latency \in latencies :
         /\ raw' = ans
         /\ now' = now + latency
         /\ iter_events' = Append(iter_events, "get")
         /\ IF ans.kind # "json"
            THEN /\ status_class' = "none"
                 /\ IF Tolerated(ans)
                    THEN /\ pc' = "sleep"
                         /\ UNCHANGED <<result, raised, pending_logged, all_pending>>
                    ELSE /\ pc' = "raised"
                         /\ raised' = (IF ans.kind = "http" THEN ExcHttp ELSE ExcOther)
                         /\ all_pending' = FALSE
                         /\ UNCHANGED <<result, pending_logged>>
            ELSE LET data == UnwrapHistory(ans.body)
                     st == ExtractStatus(data)
                 IN  /\ status_class' = st
                     /\ IF st = "done"
                        THEN /\ pc' = "returned"
                             /\ result' = data
                             /\ all_pending' = FALSE
                             /\ UNCHANGED <<raised, pending_logged>>
                        ELSE IF st = "error"
                        THEN /\ pc' = "raised"
                             /\ raised' = ExcRemote
                             /\ all_pending' = FALSE
                             /\ UNCHANGED <<result, pending_logged>>
                        ELSE /\ pc' = "sleep"
                             /\ pending_logged' = TRUE
                             /\ UNCHANGED <<result, raised, all_pending>>
    /\ UNCHANGED <<deadline, last_sleep, stop_in_tick, slept_after_stop>>
    /\ UNCHANGED <<libVars, cfgVars, uiVars, runVars>>

\* the status GET of a server that may answer anything
PollGet == PollGetFrom(Answers, 0..MaxLatency)

\* lines 68 and 84: time.sleep(self.poll_interval), then back to line 54
PollSleep ==
    /\ pc = "sleep"
    /\ now' = AfterSleep(now, poll_interval)
    /\ last_sleep' = poll_interval
    /\ iter_events' = Append(iter_events, "sleep")
    /\ slept_after_stop' = (slept_after_stop \/ stop_in_tick)
    /\ pc' = "loop"
    /\ UNCHANGED <<deadline, pending_logged, raw, status_class, result, raised,
                   stop_in_tick, all_pending>>
    /\ UNCHANGED <<libVars, cfgVars, uiVars, runVars>>

PollStep ==
    \/ PollStart
    \/ PollLoopCheck
    \/ PollStopCheck
    \/ PollTick
    \/ PollGet
    \/ PollSleep

\* no call of the parser is active
ParserIdle ==
    /\ parser_pc = "off"
    /\ workflow = <<>>
    /\ workflow_given = <<>>
    /\ parameters = <<>>
    /\ param_pos = 0
    /\ parser_log = <<>>

\* no call of the segmenter is active
SegIdle ==
    /\ seg_pc = "off"
    /\ bounds = <<>>
    /\ buf = <<>>
    /\ visited = {}
    /\ seg_idx = 0
    /\ components = <<>>

\* neither the edge fade nor the hole punch is active
FadeIdle ==
    /\ fade_pc = "off"
    /\ surface = <<>>
    /\ rect = <<>>
    /\ fade_ratio = <<>>
    /\ pixel_data = "data"

\* no call of poll_once is active
OnceIdle ==
    /\ once_pc = "off"
    /\ server_answer = <<>>
    /\ once_result = <<>>
    /\ once_raised = "none"
    /\ once_calls = <<>>

\* no call of to_prompt is active
CompileIdle ==
    /\ compile_pc = "off"
    /\ prompt = <<>>

\* the library parts at rest
\* no call of _get_region_rectangles is active
RectsIdle ==
    /\ rects_pc = "off"
    /\ selection = <<>>
    /\ region_list = <<>>
    /\ tier_used = "none"

LibIdle == ParserIdle /\ SegIdle /\ FadeIdle /\ OnceIdle /\ CompileIdle

\* the locals of a poll_result call that has not begun
PollFresh ==
    /\ deadline = 0
    /\ pending_logged = FALSE
    /\ raw = NoAnswer
    /\ status_class = "none"
    /\ result = NoBody
    /\ raised = "none"
    /\ iter_events = <<>>
    /\ last_sleep = 0
    /\ stop_in_tick = FALSE
    /\ slept_after_stop = FALSE
    /\ all_pending = TRUE

\* the handler's locals before any run
RunFresh ==
    /\ regions_only = FALSE
    /\ has_doc = TRUE
    /\ wf_global = TRUE
    /\ wf_region = TRUE
    /\ region_rects = <<>>
    /\ region_exports = 0
    /\ idx = 0
    /\ temp_files = <<>>
    /\ disk = {}
    /\ global_layer = FALSE
    /\ exit_kind = "none"
    /\ run_exc = "none"
    /\ events = <<>>

\* a client with any timing configuration, about to poll for a running enhancer
PollReady ==
    /\ RectsIdle
    /\ stopped_before = FALSE
    /\ poll_interval \in 1..MaxInterval
    /\ max_poll_time \in 0..MaxPollTime
    /\ has_stop \in BOOLEAN
    /\ has_tick \in BOOLEAN
    /\ cancel_requested \in BOOLEAN
    /\ pc = "idle"
    /\ now = 0
    /\ PollFresh
    /\ running = TRUE
    /\ status = "Running global workflow"
    /\ interrupted = FALSE
    /\ stop_seen = cancel_requested
    /\ run_pc = "global_poll"
    /\ RunFresh

PollInit == PollReady /\ LibIdle

PollSpec == PollInit /\ [][PollStep]_vars

\* the caller's thread keeps executing poll_result until it returns or raises
PollLive == PollInit /\ [][PollStep]_vars /\ WF_vars(PollStep)

\* ---------------------------------------------------------------- a run
\* the rectangle lists a selection can yield, each rectangle given by its x
RegionInputs == UNION {[1..n -> 1..MaxX] : n \in 0..MaxRegions}

RECURSIVE InsertByX(_, _)
\* r put behind every rectangle whose x is not larger (list.sort is stable)
InsertByX(sorted, r) ==
    IF sorted = <<>> THEN <<r>>
    ELSE IF sorted[Len(sorted)] <= r THEN Append(sorted, r)
    ELSE Append(InsertByX(SubSeq(sorted, 1, Len(sorted) - 1), r), sorted[Len(sorted)])

RECURSIVE SortByX(_)
\* region_rects.sort(key=lambda r: r.x)
SortByX(rects) ==
    IF rects = <<>> THEN <<>>
    ELSE InsertByX(SortByX(SubSeq(rects, 1, Len(rects) - 1)), rects[Len(rects)])

\* the elements of a list
Range(seq) == {seq[i] : i \in 1..Len(seq)}

\* an entry of events; region 0 is the global pass
Ev(op, region) == [op |-> op, region |-> region]

\* _find_output_image: the path of the first image of the result that exists
FindOutputImage(data) == data.outputs = "images"

\* exceptions that leave _run_enhance
ExcExport == "export failed"
ExcNoGlobalWorkflow == "FileNotFoundError: Global workflow not found."
ExcNoPromptId == "RuntimeError: ComfyUI did not return a prompt_id"
ExcSubmit == "submit failed"
ExcNoGlobalOutput == "FileNotFoundError: Global output image not found."

\* the locals of poll_result are gone once the call has ended
PollOff ==
    /\ pc' = "off"
    /\ deadline' = 0
    /\ pending_logged' = FALSE
    /\ raw' = NoAnswer
    /\ status_class' = "none"
    /\ result' = NoBody
    /\ raised' = "none"
    /\ iter_events' = <<>>
    /\ last_sleep' = 0
    /\ stop_in_tick' = FALSE
    /\ slept_after_stop' = FALSE
    /\ all_pending' = TRUE
    /\ now' = 0

\* an exception leaves the try block of _run_enhance
Raise(exc) ==
    /\ run_exc' = exc
    /\ exit_kind' = "exception"
    /\ run_pc' = "finally"

\* a run that begins with the flag as the last request left it
FlagAtStartKept == cancel_requested

\* line 149: the value _on_enhance_clicked gives the flag before it does
\* anything else
FlagAtStart == FALSE

\* _on_enhance_clicked, lines 147-165, up to the call of _run_enhance
EnhanceClicked ==
    /\ run_pc \in {"idle", "ended"}
    /\ ~running
    /\ \E ro \in BOOLEAN :
         /\ regions_only' = ro
         /\ status' = IF ro THEN "Running (regions)" ELSE "Running (global + regions)"
    /\ cancel_requested' = FlagAtStart
    /\ stopped_before' = (stopped_before \/ cancel_requested \/ stop_seen)
    /\ running' = TRUE
    /\ interrupted' = FALSE
    /\ stop_seen' = FALSE
    /\ poll_interval' = DefaultPollInterval
    /\ max_poll_time' = RunPollTime
    /\ has_stop' = TRUE
    /\ has_tick' = TRUE
    /\ run_pc' = "run_enhance"
    /\ has_doc' = TRUE
    /\ wf_global' = TRUE
    /\ wf_region' = TRUE
    /\ region_rects' = <<>>
    /\ region_exports' = 0
    /\ idx' = 0
    /\ temp_files' = <<>>
    /\ disk' = {}
    /\ global_layer' = FALSE
    /\ exit_kind' = "none"
    /\ run_exc' = "none"
    /\ events' = <<>>
    /\ UNCHANGED <<pollVars, parserVars, segVars, fadeVars, onceVars, compileVars,
                   rectsVars>>

\* _run_enhance, lines 282-295
RunBegin ==
    /\ run_pc = "run_enhance"
    /\ \E doc \in BOOLEAN, rects \in RegionInputs :
         /\ has_doc' = doc
         /\ IF ~doc
            THEN /\ status' = "No document"
                 /\ run_pc' = "handler_end"
                 /\ UNCHANGED <<region_rects, exit_kind>>
            ELSE /\ region_rects' = SortByX(rects)
                 /\ IF cancel_requested
                    THEN /\ status' = "Cancelled"
                         /\ exit_kind' = "return"
                         /\ run_pc' = "finally"
                    ELSE /\ run_pc' = "export_full"
                         /\ UNCHANGED <<status, exit_kind>>
    /\ UNCHANGED <<cancel_requested, running, interrupted, stop_seen>>
    /\ UNCHANGED <<regions_only, wf_global, wf_region, region_exports, idx,
                   temp_files, disk, global_layer, run_exc, events>>
    /\ UNCHANGED <<libVars, cfgVars, pollVars>>

\* lines 296-297 with _export_full_image: the temporary file is created by
\* _make_input_temp_path before the projection is taken and saved
ExportFull ==
    /\ run_pc = "export_full"
    /\ \E outcome \in {"ok", "raise_before_file", "raise_after_file"} :
         IF outcome = "ok"
         THEN /\ disk' = disk \cup {0}
              /\ temp_files' = Append(temp_files, 0)
              /\ run_pc' = "export_regions"
              /\ UNCHANGED <<run_exc, exit_kind>>
         ELSE /\ disk' = IF outcome = "raise_after_file" THEN disk \cup {0} ELSE disk
              /\ Raise(ExcExport)
              /\ UNCHANGED temp_files
    /\ UNCHANGED <<regions_only, has_doc, wf_global, wf_region, region_rects,
                   region_exports, idx, global_layer, events>>
    /\ UNCHANGED <<libVars, cfgVars, pollVars, uiVars>>

\* lines 302-306 with _export_region_image, one rectangle per step: the
\* projection is taken before the temporary file is created
ExportRegion ==
    /\ run_pc = "export_regions"
    /\ IF region_exports < Len(region_rects)
       THEN \E outcome \in {"ok", "raise_before_file"} :
              IF outcome = "ok"
              THEN /\ disk' = disk \cup {region_exports + 1}
                   /\ temp_files' = Append(temp_files, region_exports + 1)
                   /\ region_exports' = region_exports + 1
                   /\ UNCHANGED <<run_pc, run_exc, exit_kind>>
              ELSE /\ Raise(ExcExport)
                   /\ UNCHANGED <<disk, temp_files, region_exports>>
       ELSE /\ run_pc' = "resolve"
            /\ UNCHANGED <<disk, temp_files, region_exports, run_exc, exit_kind>>
    /\ UNCHANGED <<regions_only, has_doc, wf_global, wf_region, region_rects,
                   idx, global_layer, events>>
    /\ UNCHANGED <<libVars, cfgVars, pollVars, uiVars>>

\* lines 308-332
ResolveWorkflows ==
    /\ run_pc = "resolve"
    /\ \E wg \in BOOLEAN, wr \in BOOLEAN :
         /\ wf_global' = wg
         /\ wf_region' = wr
         /\ IF ~regions_only /\ ~wg
            THEN /\ Raise(ExcNoGlobalWorkflow)
                 /\ UNCHANGED idx
            ELSE /\ run_pc' = IF regions_only THEN "region_loop" ELSE "global_submit"
                 /\ idx' = IF regions_only THEN 1 ELSE idx
                 /\ UNCHANGED <<run_exc, exit_kind>>
    /\ global_layer' = FALSE
    /\ UNCHANGED <<regions_only, has_doc, region_rects, region_exports,
                   temp_files, disk, events>>
    /\ UNCHANGED <<libVars, cfgVars, pollVars, uiVars>>

\* _prepare_workflow and client.run_workflow for one pass, then the call of
\* poll_result; the POST is answered with a prompt_id, without one, or fails
Submit(region, polling) ==
    \E outcome \in {"ok", "no_prompt_id", "raise"} :
       IF outcome = "ok"
       THEN /\ events' = Append(events, Ev("submit", region))
            /\ run_pc' = polling
            /\ pc' = "idle"
            /\ UNCHANGED <<run_exc, exit_kind>>
       ELSE /\ events' = IF outcome = "no_prompt_id"
                         THEN Append(events, Ev("submit", region)) ELSE events
            /\ Raise(IF outcome = "no_prompt_id" THEN ExcNoPromptId ELSE ExcSubmit)
            /\ UNCHANGED pc

\* lines 334-346, up to the call of poll_result
GlobalSubmit ==
    /\ run_pc = "global_submit"
    /\ status' = "Running global workflow"
    /\ Submit(0, "global_poll")
    /\ UNCHANGED <<cancel_requested, running, interrupted, stop_seen>>
    /\ UNCHANGED <<now, deadline, pending_logged, raw, status_class, result, raised,
                   iter_events, last_sleep, stop_in_tick, slept_after_stop,
                   all_pending>>
    /\ UNCHANGED <<regions_only, has_doc, wf_global, wf_region, region_rects,
                   region_exports, idx, temp_files, disk, global_layer>>
    /\ UNCHANGED <<libVars, cfgVars, libVars>>

\* GlobalInsert that forgets the layer it inserted
GlobalInsertNoLayer ==
    /\ run_pc = "global_poll"
    /\ pc \in {"returned", "raised"}
    /\ PollOff
    /\ IF pc = "raised"
       THEN /\ events' = Append(events, Ev("raised", 0))
            /\ Raise(raised)
            /\ UNCHANGED <<global_layer, idx, uiVars>>
       ELSE IF ~FindOutputImage(result)
       THEN /\ events' = events \o <<Ev("done", 0), Ev("no_output", 0)>>
            /\ Raise(ExcNoGlobalOutput)
            /\ UNCHANGED <<global_layer, idx, uiVars>>
       ELSE /\ \E loaded \in BOOLEAN, click \in BOOLEAN :
                 IF loaded
                 THEN /\ global_layer' = FALSE
                      /\ events' = events \o <<Ev("done", 0), Ev("insert", 0)>>
                      /\ YieldUi(click)
                 ELSE /\ global_layer' = FALSE
                      /\ events' = events \o <<Ev("done", 0), Ev("insert_failed", 0)>>
                      /\ UNCHANGED uiVars
            /\ run_pc' = "region_loop"
            /\ idx' = 1
            /\ UNCHANGED <<run_exc, exit_kind>>
    /\ UNCHANGED <<regions_only, has_doc, wf_global, wf_region, region_rects,
                   region_exports, temp_files, disk>>
    /\ UNCHANGED <<libVars, cfgVars, libVars>>

GlobalInsertLenient ==
    /\ run_pc = "global_poll"
    /\ pc \in {"returned", "raised"}
    /\ PollOff
    /\ IF pc = "raised"
       THEN /\ events' = Append(events, Ev("raised", 0))
            /\ Raise(raised)
            /\ UNCHANGED <<global_layer, idx, uiVars>>
       ELSE IF ~FindOutputImage(result)
       THEN /\ events' = events \o <<Ev("done", 0), Ev("no_output", 0)>>
            /\ run_pc' = "region_loop"
            /\ idx' = 1
            /\ UNCHANGED <<global_layer, run_exc, exit_kind, uiVars>>
       ELSE /\ \E loaded \in BOOLEAN, click \in BOOLEAN :
                 IF loaded
                 THEN /\ global_layer' = TRUE
                      /\ events' = events \o <<Ev("done", 0), Ev("insert", 0)>>
                      /\ YieldUi(click)
                 ELSE /\ global_layer' = FALSE
                      /\ events' = events \o <<Ev("done", 0), Ev("insert_failed", 0)>>
                      /\ UNCHANGED uiVars
            /\ run_pc' = "region_loop"
            /\ idx' = 1
            /\ UNCHANGED <<run_exc, exit_kind>>
    /\ UNCHANGED <<regions_only, has_doc, wf_global, wf_region, region_rects,
                   region_exports, temp_files, disk>>
    /\ UNCHANGED <<libVars, cfgVars, libVars>>

\* lines 342-357, from the end of poll_result: _find_output_image, then
\* _insert_layer_from_file, which returns no layer when the image file does not
\* load and otherwise ends with _refresh_views and its _yield_ui
GlobalInsert ==
    /\ run_pc = "global_poll"
    /\ pc \in {"returned", "raised"}
    /\ PollOff
    /\ IF pc = "raised"
       THEN /\ events' = Append(events, Ev("raised", 0))
            /\ Raise(raised)
            /\ UNCHANGED <<global_layer, idx, uiVars>>
       ELSE IF ~FindOutputImage(result)
       THEN /\ events' = events \o <<Ev("done", 0), Ev("no_output", 0)>>
            /\ Raise(ExcNoGlobalOutput)
            /\ UNCHANGED <<global_layer, idx, uiVars>>
       ELSE /\ \E loaded \in BOOLEAN, click \in BOOLEAN :
                 IF loaded
                 THEN /\ global_layer' = TRUE
                      /\ events' = events \o <<Ev("done", 0), Ev("insert", 0)>>
                      /\ YieldUi(click)
                 ELSE /\ global_layer' = FALSE
                      /\ events' = events \o <<Ev("done", 0), Ev("insert_failed", 0)>>
                      /\ UNCHANGED uiVars
            /\ run_pc' = "region_loop"
            /\ idx' = 1
            /\ UNCHANGED <<run_exc, exit_kind>>
    /\ UNCHANGED <<regions_only, has_doc, wf_global, wf_region, region_rects,
                   region_exports, temp_files, disk>>
    /\ UNCHANGED <<libVars, cfgVars, libVars>>

\* lines 360-383: the loop test, the cancellation and workflow checks, and
\* _punch_hole_on_layer, which ends with _refresh_views and its _yield_ui
\* unless it returns early or its exception is logged
RegionStart ==
    /\ run_pc = "region_loop"
    /\ IF idx > Len(region_rects)
       THEN /\ exit_kind' = "fallthrough"
            /\ run_pc' = "finally"
            /\ UNCHANGED <<events, temp_files, disk, uiVars>>
       ELSE IF cancel_requested
       THEN /\ status' = "Cancelled"
            /\ exit_kind' = "fallthrough"
            /\ run_pc' = "finally"
            /\ UNCHANGED <<events, temp_files, disk, cancel_requested, running,
                           interrupted, stop_seen>>
       ELSE /\ IF idx <= region_exports
               THEN UNCHANGED <<temp_files, disk>>
               ELSE /\ disk' = disk \cup {idx}
                    /\ temp_files' = Append(temp_files, idx)
            /\ IF ~wf_region
               THEN /\ exit_kind' = "fallthrough"
                    /\ run_pc' = "finally"
                    /\ UNCHANGED <<events, uiVars>>
               ELSE /\ run_pc' = "region_submit"
                    /\ UNCHANGED exit_kind
                    /\ IF global_layer
                       THEN \E punched \in BOOLEAN, click \in BOOLEAN :
                              IF punched
                              THEN /\ events' = Append(events, Ev("punch", idx))
                                   /\ YieldUi(click)
                              ELSE /\ events' = Append(events, Ev("punch_skipped", idx))
                                   /\ UNCHANGED uiVars
                       ELSE UNCHANGED <<events, uiVars>>
    /\ UNCHANGED <<regions_only, has_doc, wf_global, wf_region, region_rects,
                   region_exports, idx, global_layer, run_exc>>
    /\ UNCHANGED <<libVars, cfgVars, pollVars>>

\* lines 385-397, up to the call of poll_result
RegionSubmit ==
    /\ run_pc = "region_submit"
    /\ status' = "Running region"
    /\ Submit(idx, "region_poll")
    /\ UNCHANGED <<cancel_requested, running, interrupted, stop_seen>>
    /\ UNCHANGED <<now, deadline, pending_logged, raw, status_class, result, raised,
                   iter_events, last_sleep, stop_in_tick, slept_after_stop,
                   all_pending>>
    /\ UNCHANGED <<regions_only, has_doc, wf_global, wf_region, region_rects,
                   region_exports, idx, temp_files, disk, global_layer>>
    /\ UNCHANGED <<libVars, cfgVars, libVars>>

\* RegionInsert that treats a missing output image like the global pass does
RegionInsertStrict ==
    /\ run_pc = "region_poll"
    /\ pc \in {"returned", "raised"}
    /\ PollOff
    /\ IF pc = "raised"
       THEN /\ events' = Append(events, Ev("raised", idx))
            /\ Raise(raised)
            /\ UNCHANGED <<idx, uiVars>>
       ELSE IF ~FindOutputImage(result)
       THEN /\ events' = events \o <<Ev("done", idx), Ev("no_output", idx)>>
            /\ Raise(ExcNoGlobalOutput)
            /\ UNCHANGED <<idx, uiVars>>
       ELSE /\ run_pc' = "region_loop"
            /\ idx' = idx + 1
            /\ UNCHANGED <<run_exc, exit_kind>>
            /\ \E loaded \in BOOLEAN, click \in BOOLEAN :
                      IF loaded
                      THEN /\ events' = events \o <<Ev("done", idx), Ev("insert", idx)>>
                           /\ YieldUi(click)
                      ELSE /\ events' = events \o
                                  <<Ev("done", idx), Ev("insert_failed", idx)>>
                           /\ UNCHANGED uiVars
    /\ UNCHANGED <<regions_only, has_doc, wf_global, wf_region, region_rects,
                   region_exports, temp_files, disk, global_layer>>
    /\ UNCHANGED <<libVars, cfgVars, libVars>>

\* lines 393-411, from the end of poll_result
RegionInsert ==
    /\ run_pc = "region_poll"
    /\ pc \in {"returned", "raised"}
    /\ PollOff
    /\ IF pc = "raised"
       THEN /\ events' = Append(events, Ev("raised", idx))
            /\ Raise(raised)
            /\ UNCHANGED <<idx, uiVars>>
       ELSE /\ run_pc' = "region_loop"
            /\ idx' = idx + 1
            /\ UNCHANGED <<run_exc, exit_kind>>
            /\ IF ~FindOutputImage(result)
               THEN /\ events' = events \o <<Ev("done", idx), Ev("no_output", idx)>>
                    /\ UNCHANGED uiVars
               ELSE \E loaded \in BOOLEAN, click \in BOOLEAN :
                      IF loaded
                      THEN /\ events' = events \o <<Ev("done", idx), Ev("insert", idx)>>
                           /\ YieldUi(click)
                      ELSE /\ events' = events \o
                                  <<Ev("done", idx), Ev("insert_failed", idx)>>
                           /\ UNCHANGED uiVars
    /\ UNCHANGED <<regions_only, has_doc, wf_global, wf_region, region_rects,
                   region_exports, temp_files, disk, global_layer>>
    /\ UNCHANGED <<libVars, cfgVars, libVars>>

\* lines 412-422: the finally block, then the status lines a normal end of the
\* try block reaches
RunFinally ==
    /\ run_pc = "finally"
    /\ disk' = disk \ Range(temp_files)
    /\ status' = IF exit_kind = "fallthrough"
                 THEN (IF cancel_requested THEN "Cancelled" ELSE "Done")
                 ELSE status
    /\ run_pc' = "handler_end"
    /\ UNCHANGED <<cancel_requested, running, interrupted, stop_seen>>
    /\ UNCHANGED <<regions_only, has_doc, wf_global, wf_region, region_rects,
                   region_exports, idx, temp_files, global_layer, exit_kind, run_exc,
                   events>>
    /\ UNCHANGED <<libVars, cfgVars, pollVars>>

\* _on_enhance_clicked, lines 166-175, from the end of _run_enhance
HandlerEnd ==
    /\ run_pc = "handler_end"
    /\ status' = IF run_exc = "none" THEN "Done" ELSE "Failed"
    /\ running' = FALSE
    /\ cancel_requested' = FALSE
    /\ run_pc' = "ended"
    /\ UNCHANGED <<interrupted, stop_seen>>
    /\ UNCHANGED <<regions_only, has_doc, wf_global, wf_region, region_rects,
                   region_exports, idx, temp_files, disk, global_layer, exit_kind,
                   run_exc, events>>
    /\ UNCHANGED <<libVars, cfgVars, pollVars>>

\* the status GET of the server of a run, which answers at once
RunPollGet == PollGetFrom(RunAnswers, {0})

\* the enhancer after construction, with its dock attached and no run started
RunIdle ==
    /\ stopped_before = FALSE
    /\ poll_interval = DefaultPollInterval
    /\ max_poll_time = RunPollTime
    /\ has_stop = TRUE
    /\ has_tick = TRUE
    /\ pc = "off"
    /\ now = 0
    /\ PollFresh
    /\ cancel_requested = FALSE
    /\ running = FALSE
    /\ status = "Idle"
    /\ interrupted = FALSE
    /\ stop_seen = FALSE
    /\ run_pc = "idle"
    /\ RunFresh

\* no run and no call of _get_region_rectangles
EnhancerIdle == RunIdle /\ RectsIdle

\* the plugin after construction
Init == EnhancerIdle /\ LibIdle

Next ==
    \/ EnhanceClicked
    \/ RunBegin
    \/ ExportFull
    \/ ExportRegion
    \/ ResolveWorkflows
    \/ GlobalSubmit
    \/ PollStart
    \/ PollLoopCheck
    \/ PollStopCheck
    \/ PollTick
    \/ RunPollGet
    \/ PollSleep
    \/ GlobalInsert
    \/ RegionStart
    \/ RegionSubmit
    \/ RegionInsert
    \/ RunFinally
    \/ HandlerEnd

Spec == Init /\ [][Next]_vars

\* ------------------------------------------------------- poll_result claims
\* the poll_result call has returned or raised
Terminated == pc \in {"returned", "raised"}

\* the job state a finished call reports
Outcome ==
    IF pc = "returned" THEN "Done"
    ELSE IF pc # "raised" THEN "Pending"
    ELSE IF raised = ExcRemote THEN "Error"
    ELSE IF raised = ExcTimeout THEN "TimedOut"
    ELSE IF raised = ExcCancelled THEN "Cancelled"
    ELSE IF raised \in {ExcHttp, ExcOther} THEN "Transport"
    ELSE "Unknown"

\* C1: whatever the status endpoint answers (pending or 404 for ever included),
\* with the clock advancing by the poll interval in each pending iteration, a
\* poll call eventually ends, and it ends in exactly one of Done (the record is
\* returned), Error, TimedOut, Cancelled or a propagated non-404 transport error.
C1_PollTerminates ==
    /\ <>Terminated
    /\ [](Terminated =>
            /\ Outcome \in {"Done", "Error", "TimedOut", "Cancelled", "Transport"}
            /\ (Outcome = "Done") = (result # NoBody)
            /\ (Outcome = "Done") = (raised = "none")
            /\ (Outcome = "Transport") =>
                 (raw.kind \in {"http", "other"} /\ raw.code # 404))

\* a call that saw 404 until its deadline passed
C1_Witness ==
    /\ pc = "raised" /\ raised = ExcTimeout
    /\ raw.kind = "http" /\ raw.code = 404
    /\ all_pending /\ last_sleep > 0

\* C2: in every iteration stop_requested() is evaluated before tick() and before
\* the status GET; when it returns true the call raises the cancellation error
\* in that iteration, with no tick and no status request, and that error is not
\* the timeout error.
C2_StopCheckedFirst ==
    /\ (has_stop /\ iter_events # <<>>) => iter_events[1] = "stop_requested"
    /\ (has_stop /\ pc = "tick") =>
         (~cancel_requested /\ iter_events = <<"stop_requested">>)
    /\ (raised = ExcCancelled) =>
         (pc = "raised" /\ cancel_requested /\ iter_events = <<"stop_requested">>)
    /\ ExcCancelled # ExcTimeout

\* a call cancelled by a stop click that an earlier tick delivered
C2_Witness ==
    /\ pc = "raised" /\ raised = ExcCancelled
    /\ stop_in_tick /\ has_tick

\* C3: once a stop click inside tick() has set the flag, the call raises the
\* cancellation error without a poll-interval sleep coming first.
C3_CancelBeforeSleep ==
    (has_stop /\ stop_in_tick) => ~slept_after_stop

\* C4: a 404 answer keeps the call pending: it sleeps exactly one poll interval
\* and then makes the next loop check; any other transport error ends the call
\* by propagating, on its first occurrence.
C4_Only404Tolerated ==
    [][ /\ (pc = "get" /\ raw'.kind = "http" /\ raw'.code = 404) =>
             (pc' = "sleep" /\ raised' = "none")
        /\ (pc = "get" /\ raw'.kind \in {"http", "other"} /\ raw'.code # 404) =>
             (pc' = "raised" /\ raised' \in {ExcHttp, ExcOther})
        /\ (pc = "sleep") =>
             (pc' = "loop" /\ now' = now + poll_interval /\ raised' = "none")
      ]_vars

\* a call back at its loop check one poll interval after a 404
C4_Witness ==
    /\ pc = "loop"
    /\ raw.kind = "http" /\ raw.code = 404
    /\ last_sleep = poll_interval
    /\ iter_events = <<"stop_requested", "tick", "get", "sleep">>

\* C5 as stated: the timeout error is raised only at a loop check where the
\* clock reads strictly more than start + max_poll_time.
C5_TimeoutOnlyPastDeadline ==
    (raised = ExcTimeout) => now > deadline

\* C5 amended: the deadline is start + max_poll_time; a loop check with
\* now < deadline starts another iteration and a loop check with now >= deadline
\* (now equal to the deadline included, and the first check when max_poll_time
\* is 0) raises the timeout error; a call whose answers were all pending or 404
\* and that saw no stop request ends in TimedOut.
C5_TimeoutAtDeadline ==
    /\ [][ /\ (pc = "idle") => (deadline' = now + max_poll_time)
           /\ (pc = "loop" /\ now < deadline) => (pc' = "stop")
           /\ (pc = "loop" /\ now >= deadline) =>
                (pc' = "raised" /\ raised' = ExcTimeout)
         ]_vars
    /\ []((raised = ExcTimeout) => now >= deadline)
    /\ []((Terminated /\ all_pending /\ ~cancel_requested) => Outcome = "TimedOut")

\* a call that was pending and timed out with the clock exactly at the deadline
C5_Witness ==
    /\ pc = "raised" /\ raised = ExcTimeout
    /\ now = deadline /\ last_sleep > 0 /\ all_pending

\* the answers the specification classifies as Done
DoneAnswer(body) ==
    \/ body.status \in {"success", "ok", "completed"}
    \/ (body.status \notin {"error", "failed"} /\ body.outputs \in {"images", "noimages"})

\* C6: the call returns the record in the first iteration whose answer is Done,
\* an answer with non-empty outputs and no status string included, without
\* sleeping and without another status request.
C6_DoneReturnsAtOnce ==
    /\ (raw.kind = "json" /\ DoneAnswer(raw.body)) =>
         /\ pc = "returned"
         /\ result.status = raw.body.status
         /\ result.outputs = raw.body.outputs
         /\ iter_events[Len(iter_events)] = "get"
    /\ (pc = "returned") => (raw.kind = "json" /\ DoneAnswer(raw.body))

\* a call that returned on outputs alone, after at least one pending answer
C6_Witness ==
    /\ pc = "returned"
    /\ raw.body.status = "absent" /\ raw.body.outputs = "images"
    /\ pending_logged

\* C7: a record is Done when its status is success, ok or completed, Error when
\* it is error or failed, otherwise Done when outputs is non-empty, otherwise
\* Pending; an explicit status wins over the presence of outputs.
C7_Classification ==
    (raw.kind = "json") =>
        /\ (raw.body.status \in {"success", "ok", "completed"}) => status_class = "done"
        /\ (raw.body.status \in {"error", "failed"}) => status_class = "error"
        /\ (raw.body.status \in {"absent", "running"}
              /\ raw.body.outputs \in {"images", "noimages"}) => status_class = "done"
        /\ (raw.body.status \in {"absent", "running"}
              /\ raw.body.outputs \in {"absent", "empty"}) => status_class = "pending"

\* a record saying error while carrying outputs, classified Error
C7_Witness ==
    /\ raw.kind = "json"
    /\ raw.body.status = "error" /\ raw.body.outputs = "images"
    /\ status_class = "error" /\ raised = ExcRemote

\* ----------------------------------------------------------- run claims
\* C8: a run ends in exactly one of Done, Cancelled or Failed, and a run during
\* which the stop flag was set (before export, inside a poll, or between
\* regions) ends with the status Cancelled.
C8_CancelReported ==
    (run_pc = "ended") =>
        /\ status \in {"Done", "Cancelled", "Failed"}
        /\ stop_seen => status = "Cancelled"

\* C9: after a run has returned or raised, whatever the exit path, no temporary
\* input file created by its full-image or region exports remains.
C9_TempFilesDeleted ==
    (run_pc \in {"handler_end", "ended"}) => disk = {}

\* event e is recorded before position i
Before(i, e) == \E j \in 1..(i - 1) : events[j] = e

\* C10 as stated: with the global pass enabled, no region step happens before
\* the global job has ended and its result has been inserted.
C10_RegionsAfterGlobalLayer ==
    ~regions_only =>
        \A i \in 1..Len(events) :
            (events[i].region > 0) => Before(i, Ev("insert", 0))

\* C10 amended: with the global pass enabled, a region step happens only after
\* the global job has ended Done, its output image was found and the insertion
\* of its result was attempted; a hole is punched only when that insertion
\* produced the global layer; after a global job that raised or gave no output
\* image there is no region step.
C10_RegionsAfterGlobalPass ==
    ~regions_only =>
        \A i \in 1..Len(events) :
            (events[i].region > 0) =>
                /\ Before(i, Ev("done", 0))
                /\ Before(i, Ev("insert", 0)) \/ Before(i, Ev("insert_failed", 0))
                /\ (events[i].op = "punch") => Before(i, Ev("insert", 0))
                /\ ~Before(i, Ev("raised", 0))
                /\ ~Before(i, Ev("no_output", 0))

\* a region job submitted after the global layer was inserted and punched
C10_Witness ==
    /\ ~regions_only
    /\ \E i \in 1..Len(events) :
         /\ events[i] = Ev("submit", 1)
         /\ Before(i, Ev("punch", 1))
         /\ Before(i, Ev("insert", 0))

\* the entries of events with the given operation, in order
EventsOf(op) == SelectSeq(events, LAMBDA e : e.op = op)

\* all three jobs of a global + 2 regions run ended Done with an output image found
C11_AllJobsDone ==
    /\ ~regions_only
    /\ Len(region_rects) = 2
    /\ \A r \in 0..2 : Ev("done", r) \in Range(events)
    /\ \A r \in 0..2 : Ev("no_output", r) \notin Range(events)

\* C11 as stated: with the global pass enabled, 2 regions and three jobs that
\* ended with a locatable output image, exactly 3 layers are inserted, global
\* first, and exactly 2 holes are punched, one per region in ascending x.
C11_ThreeLayersTwoPunches ==
    C11_AllJobsDone =>
        /\ EventsOf("insert") = <<Ev("insert", 0), Ev("insert", 1), Ev("insert", 2)>>
        /\ EventsOf("punch") = <<Ev("punch", 1), Ev("punch", 2)>>
        /\ region_rects[1] <= region_rects[2]

\* C11 amended: in such a run the layers inserted are, in the order global,
\* region 1, region 2, exactly those whose output image loaded; the holes
\* punched are, in ascending x, exactly those of the regions whose pixels could
\* be read, and none when the global image did not load. So 3 layers and 2
\* punches when every image loads and every punch reads its pixels.
C11_LayersAndPunches ==
    C11_AllJobsDone =>
        /\ EventsOf("insert") =
              SelectSeq(<<Ev("insert", 0), Ev("insert", 1), Ev("insert", 2)>>,
                        LAMBDA e : Ev("insert_failed", e.region) \notin Range(events))
        /\ EventsOf("punch") =
              IF Ev("insert", 0) \in Range(events)
              THEN SelectSeq(<<Ev("punch", 1), Ev("punch", 2)>>,
                        LAMBDA e : Ev("punch_skipped", e.region) \notin Range(events))
              ELSE <<>>
        /\ region_rects[1] <= region_rects[2]

\* three layers inserted and two holes punched, the regions at different x
C11_Witness ==
    /\ C11_AllJobsDone
    /\ Len(EventsOf("insert")) = 3
    /\ Len(EventsOf("punch")) = 2
    /\ region_rects[1] < region_rects[2]

\* C12: a region job that ended without an output image inserts no layer for
\* that region and raises nothing: the step that finds no image goes on to the
\* next region of the loop, and a run that then ends without a stop request or
\* another failure ends Done with the job of every later region submitted.
C12_NoOutputSkipsRegion ==
    /\ [](\A i \in 1..Len(events) :
            (events[i].op = "no_output" /\ events[i].region > 0) =>
                LET r == events[i].region IN
                /\ Ev("insert", r) \notin Range(events)
                /\ (run_pc = "ended" /\ run_exc = "none" /\ ~stop_seen) =>
                       /\ status = "Done"
                       /\ \A q \in (r + 1)..Len(region_rects) :
                             Ev("submit", q) \in Range(events))
    /\ [][(run_pc = "region_poll" /\ Len(events') > Len(events)
             /\ events'[Len(events')].op = "no_output") =>
               (run_pc' = "region_loop" /\ idx' = idx + 1 /\ run_exc' = "none")]_vars

\* a run that ended Done after its first region gave no output image and its
\* second region was inserted
C12_Witness ==
    /\ run_pc = "ended"
    /\ status = "Done"
    /\ Ev("no_output", 1) \in Range(events)
    /\ Ev("insert", 2) \in Range(events)

\* ------------------------------------------------- region order and prompts
\* OrderSpec is the region loop of _run_enhance for selections of up to
\* OrderRegions regions, discovered in any order: each step is one iteration of
\* the loop, from its cancellation check to the end of its body.

\* the rectangle lists _get_region_rectangles can return, in discovery order
OrderInputs == UNION {[1..n -> 1..MaxX] : n \in 0..OrderRegions}

\* a prompt index that follows the region index
PromptIndexUncapped(i) == i

\* line 365: prompt_idx = min(idx, 3), idx 0-based
PromptIndex(i) == IF i < LastPromptSlot THEN i ELSE LastPromptSlot

\* a region-only run that has its document and the discovered rectangles
OrderInit ==
    /\ poll_interval = DefaultPollInterval
    /\ max_poll_time = RunPollTime
    /\ has_stop = TRUE
    /\ has_tick = TRUE
    /\ pc = "off"
    /\ now = 0
    /\ PollFresh
    /\ cancel_requested = FALSE
    /\ running = TRUE
    /\ status = "Running (regions)"
    /\ interrupted = FALSE
    /\ stop_seen = FALSE
    /\ run_pc = "order_begin"
    /\ regions_only = TRUE
    /\ has_doc = TRUE
    /\ wf_global = TRUE
    /\ wf_region = TRUE
    /\ region_rects \in OrderInputs
    /\ region_exports = 0
    /\ idx = 0
    /\ temp_files = <<>>
    /\ disk = {}
    /\ global_layer = FALSE
    /\ exit_kind = "none"
    /\ run_exc = "none"
    /\ events = <<>>
    /\ LibIdle
    /\ RectsIdle
    /\ stopped_before = FALSE

\* lines 288-289: the sort, then on to the loop
OrderBegin ==
    /\ run_pc = "order_begin"
    /\ region_rects' = SortByX(region_rects)
    /\ idx' = 1
    /\ run_pc' = "order_loop"
    /\ UNCHANGED <<regions_only, has_doc, wf_global, wf_region, region_exports,
                   temp_files, disk, global_layer, exit_kind, run_exc, events>>
    /\ UNCHANGED <<libVars, cfgVars, pollVars, uiVars>>

\* lines 360-411, one iteration: the cancellation check, the prompt choice,
\* the submission with that prompt, and a body that ends normally (a stop
\* click may arrive at one of its yields) or raises
OrderRegion ==
    /\ run_pc = "order_loop"
    /\ idx <= Len(region_rects)
    /\ IF cancel_requested
       THEN /\ status' = "Cancelled"
            /\ exit_kind' = "fallthrough"
            /\ run_pc' = "order_done"
            /\ UNCHANGED <<events, idx, run_exc, cancel_requested, running,
                           interrupted, stop_seen>>
       ELSE /\ events' = Append(events, [op |-> "submit", region |-> idx,
                                         x |-> region_rects[idx],
                                         slot |-> PromptIndex(idx - 1)])
            /\ \E outcome \in {"next", "stop", "raise"} :
                 IF outcome = "raise"
                 THEN /\ run_exc' = ExcSubmit
                      /\ exit_kind' = "exception"
                      /\ run_pc' = "order_done"
                      /\ UNCHANGED <<idx, uiVars>>
                 ELSE /\ idx' = idx + 1
                      /\ YieldUi(outcome = "stop")
                      /\ UNCHANGED <<run_pc, run_exc, exit_kind>>
    /\ UNCHANGED <<regions_only, has_doc, wf_global, wf_region, region_rects,
                   region_exports, temp_files, disk, global_layer>>
    /\ UNCHANGED <<libVars, cfgVars, pollVars>>

\* the loop has run out of regions
OrderEnd ==
    /\ run_pc = "order_loop"
    /\ idx > Len(region_rects)
    /\ exit_kind' = "fallthrough"
    /\ run_pc' = "order_done"
    /\ UNCHANGED <<regions_only, has_doc, wf_global, wf_region, region_rects,
                   region_exports, idx, temp_files, disk, global_layer, run_exc,
                   events>>
    /\ UNCHANGED <<libVars, cfgVars, pollVars, uiVars>>

OrderNext == OrderBegin \/ OrderRegion \/ OrderEnd

OrderSpec == OrderInit /\ [][OrderNext]_vars

\* C13: the region list of the loop is sorted ascending by x, the region jobs
\* are submitted in exactly that order, and the job of the region at 0-based
\* position i is submitted with prompt slot min(i, 3).
C13_SortedOrderAndPromptSlot ==
    (run_pc # "order_begin") =>
        /\ \A i, j \in 1..Len(region_rects) :
              (i < j) => region_rects[i] <= region_rects[j]
        /\ \A k \in 1..Len(events) :
              /\ events[k].op = "submit"
              /\ events[k].region = k
              /\ events[k].x = region_rects[k]
              /\ events[k].slot = (IF k - 1 < 3 THEN k - 1 ELSE 3)

\* a fifth region, at a larger x than the first, submitted with the last slot
C13_Witness ==
    /\ Len(events) >= 5
    /\ events[5].slot = 3
    /\ events[4].slot = 3
    /\ events[1].x < events[5].x

\* ------------------------------------------------------------ JSON values
\* A workflow document is JSON: None, strings, integers, floats (mant / 10^exp,
\* mant not divisible by 10 unless exp = 0), lists, and mappings that keep the
\* insertion order of their keys as Python's dict does.
JNone == [t |-> "none"]
JStr(s) == [t |-> "str", s |-> s]
JInt(n) == [t |-> "int", n |-> n]
JFloat(m, e) == [t |-> "float", mant |-> m, exp |-> e]
JList(items) == [t |-> "list", items |-> items]
JDict(keys, vals) == [t |-> "dict", keys |-> keys, vals |-> vals]

IsDict(v) == v.t = "dict"
IsList(v) == v.t = "list"
IsStr(v) == v.t = "str"

\* key in d
Has(d, k) == \E i \in 1..Len(d.keys) : d.keys[i] = k
KeyPos(d, k) == CHOOSE i \in 1..Len(d.keys) : d.keys[i] = k
\* d.get(k)
Get(d, k) == IF Has(d, k) THEN d.vals[KeyPos(d, k)] ELSE JNone
\* d[k] = v: a present key keeps its place, a new one goes last
Put(d, k, v) ==
    IF Has(d, k) THEN [d EXCEPT !.vals[KeyPos(d, k)] = v]
    ELSE JDict(Append(d.keys, k), Append(d.vals, v))

\* bool(v)
Truthy(v) ==
    CASE v.t = "none" -> FALSE
      [] v.t = "str" -> v.s # ""
      [] v.t = "int" -> v.n # 0
      [] v.t = "float" -> v.mant # 0
      [] v.t = "list" -> v.items # <<>>
      [] v.t = "dict" -> v.keys # <<>>

\* a or b
Or(a, b) == IF Truthy(a) THEN a ELSE b

\* ---------------------------------------------------------------- strings
Digits == <<"0", "1", "2", "3", "4", "5", "6", "7", "8", "9">>
DigitSet == {Digits[i] : i \in 1..10}
DigitVal(c) == (CHOOSE i \in 1..10 : Digits[i] = c) - 1

\* the characters of a string; a word of letters counts as one letter
Spell(s) ==
    CASE s = "" -> <<>>
      [] s \in DigitSet -> <<s>>
      [] s = "20" -> <<"2", "0">>
      [] s = "007" -> <<"0", "0", "7">>
      [] s = "0.2" -> <<"0", ".", "2">>
      [] s = "1.50" -> <<"1", ".", "5", "0">>
      [] s = ".5" -> <<".", "5">>
      [] s = "7." -> <<"7", ".">>
      [] s = "-3" -> <<"-", "3">>
      [] s = "1.2.3" -> <<"1", ".", "2", ".", "3">>
      [] s = "-" -> <<"-">>
      [] OTHER -> <<s>>

\* str.isdigit()
IsDigitStr(s) ==
    LET c == Spell(s) IN Len(c) > 0 /\ \A i \in 1..Len(c) : c[i] \in DigitSet

RECURSIVE DigitsValue(_)
\* int() of a sequence of digits
DigitsValue(c) ==
    IF c = <<>> THEN 0
    ELSE 10 * DigitsValue(SubSeq(c, 1, Len(c) - 1)) + DigitVal(c[Len(c)])

\* int(s) for an all-digit s
IntOf(s) == DigitsValue(Spell(s))

\* str(n) for 0 <= n <= 9
StrOfInt(n) == Digits[n + 1]

\* the characters of a float literal after its sign
Unsigned(c) == IF c # <<>> /\ c[1] \in {"-", "+"} THEN Tail(c) ELSE c

\* float(s) does not raise ValueError: sign, digits, at most one point
FloatParseable(s) ==
    LET b == Unsigned(Spell(s)) IN
    /\ \A i \in 1..Len(b) : b[i] \in DigitSet \cup {"."}
    /\ \E i \in 1..Len(b) : b[i] \in DigitSet
    /\ Cardinality({i \in 1..Len(b) : b[i] = "."}) <= 1

RECURSIVE Reduce(_, _)
\* mant / 10^exp in lowest terms of ten
Reduce(m, e) == IF e > 0 /\ m % 10 = 0 THEN Reduce(m \div 10, e - 1) ELSE JFloat(m, e)

\* float(s) for a parseable s
FloatOf(s) ==
    LET c == Spell(s)
        b == Unsigned(c)
        digits == SelectSeq(b, LAMBDA ch : ch \in DigitSet)
        point == IF \E i \in 1..Len(b) : b[i] = "."
                 THEN CHOOSE i \in 1..Len(b) : b[i] = "." ELSE Len(b) + 1
        places == IF point > Len(b) THEN 0 ELSE Len(b) - point
        sign == IF c # <<>> /\ c[1] = "-" THEN -1 ELSE 1
    IN Reduce(sign * DigitsValue(digits), places)

\* a conversion that leaves every string as it is
ConvertValueKeep(value) == value

\* _convert_value
ConvertValue(value) ==
    IF value.t \in {"int", "float"} THEN value
    ELSE IF value.t = "str"
    THEN IF IsDigitStr(value.s) THEN JInt(IntOf(value.s))
         ELSE IF FloatParseable(value.s) THEN FloatOf(value.s)
         ELSE value
    ELSE value

\* --------------------------------------------------------- WorkflowParser
EmptyDict == JDict(<<>>, <<>>)

\* str(v) for the values a node id takes
StrOf(v) ==
    CASE v.t = "int" -> StrOfInt(v.n)
      [] v.t = "str" -> v.s
      [] v.t = "none" -> "None"
      [] OTHER -> "?"

RECURSIVE NormalizedUpTo(_, _)
\* the mapping _normalize_nodes has built after the first n entries of the list
NormalizedUpTo(items, n) ==
    IF n = 0 THEN EmptyDict
    ELSE LET prev == NormalizedUpTo(items, n - 1)
             node == items[n]
             node_id == IF IsDict(node) THEN Get(node, "id") ELSE JNone
             key == IF node_id # JNone THEN StrOf(node_id) ELSE StrOfInt(n - 1)
         IN IF ~IsDict(node) THEN prev ELSE Put(prev, key, node)

\* a normalisation that also rebuilds a mapping from its values
NormalizeNodesAlways(wf) ==
    LET nodes == Get(wf, "nodes") IN
    IF IsDict(nodes) THEN Put(wf, "nodes", NormalizedUpTo(nodes.vals, Len(nodes.vals)))
    ELSE IF IsList(nodes)
    THEN Put(wf, "nodes", NormalizedUpTo(nodes.items, Len(nodes.items)))
    ELSE wf

\* _normalize_nodes
NormalizeNodes(wf) ==
    LET nodes == Get(wf, "nodes") IN
    IF IsDict(nodes) THEN wf
    ELSE IF IsList(nodes)
    THEN Put(wf, "nodes", NormalizedUpTo(nodes.items, Len(nodes.items)))
    ELSE wf

\* the first position of 1..n that satisfies P, 0 when there is none
First(n, P(_)) ==
    IF \E i \in 1..n : P(i)
    THEN CHOOSE i \in 1..n : P(i) /\ \A j \in 1..(i - 1) : ~P(j)
    ELSE 0

\* the tests of the first loop of _find_node on one node
NodeMatches(node, identifier) ==
    /\ IsDict(node)
    /\ \/ Get(node, "name") = JStr(identifier)
       \/ Get(node, "title") = JStr(identifier)
       \/ StrOf(Get(node, "id")) = identifier
       \/ Or(Get(node, "type"), Get(node, "class_type")) = JStr(identifier)

\* the test of the last loop of _find_node on one node
NodeHasInput(node, identifier) ==
    /\ IsDict(node)
    /\ IsDict(Get(node, "inputs"))
    /\ Has(Get(node, "inputs"), identifier)

\* _find_node on the id-keyed mapping: the position of the node found, or 0
FindNode(nodes, identifier) ==
    IF Has(nodes, identifier) THEN KeyPos(nodes, identifier)
    ELSE IF First(Len(nodes.vals), LAMBDA i : NodeMatches(nodes.vals[i], identifier)) # 0
    THEN First(Len(nodes.vals), LAMBDA i : NodeMatches(nodes.vals[i], identifier))
    ELSE First(Len(nodes.vals), LAMBDA i : NodeHasInput(nodes.vals[i], identifier))

\* an entry of a list of inputs with the given name
EntryNamed(entry, name) == IsDict(entry) /\ Get(entry, "name") = JStr(name)

\* the test of _find_input_target on one node
NodeTakesInput(node, input_key) ==
    /\ IsDict(node)
    /\ LET inputs == Or(Get(node, "inputs"), EmptyDict) IN
       \/ IsDict(inputs) /\ Has(inputs, input_key)
       \/ IsList(inputs) /\ \E i \in 1..Len(inputs.items) :
                                EntryNamed(inputs.items[i], input_key)

\* _find_input_target: the position of the node found, or 0
FindInputTarget(nodes, input_key) ==
    First(Len(nodes.vals), LAMBDA i : NodeTakesInput(nodes.vals[i], input_key))

\* _set_widget_value: whether it set a value, and the node afterwards
SetWidgetValue(node, value, target) ==
    LET widgets == Get(node, "widgets_values")
        inputs == Get(node, "inputs")
        entry == IF IsList(inputs)
                 THEN First(Len(inputs.items),
                            LAMBDA i : EntryNamed(inputs.items[i], target))
                 ELSE 0
    IN IF IsList(widgets) /\ widgets.items # <<>>
       THEN [ok |-> TRUE,
             node |-> Put(node, "widgets_values",
                          JList([widgets.items EXCEPT ![1] = ConvertValue(value)]))]
       ELSE IF entry # 0
       THEN [ok |-> TRUE,
             node |-> Put(node, "inputs",
                          JList([inputs.items EXCEPT
                                   ![entry] = Put(@, "value", ConvertValue(value))]))]
       ELSE [ok |-> FALSE, node |-> node]

RECURSIVE SetAt(_, _, _)
\* the walk of _apply_single from current along the segments after the node
\* identifier, ending with the assignment at the leaf
SetAt(current, remainder, value) ==
    LET segment == remainder[1] IN
    IF Len(remainder) = 1
    THEN IF IsList(current) /\ IsDigitStr(segment)
         THEN IF IntOf(segment) < Len(current.items)
              THEN [ok |-> TRUE,
                    v |-> JList([current.items EXCEPT
                                   ![IntOf(segment) + 1] = ConvertValue(value)])]
              ELSE [ok |-> FALSE, v |-> current]
         ELSE IF IsDict(current)
         THEN [ok |-> TRUE, v |-> Put(current, segment, ConvertValue(value))]
         ELSE [ok |-> FALSE, v |-> current]
    ELSE IF IsList(current) /\ IsDigitStr(segment)
         THEN IF IntOf(segment) < Len(current.items)
              THEN LET sub == SetAt(current.items[IntOf(segment) + 1],
                                    Tail(remainder), value)
                   IN [ok |-> sub.ok,
                       v |-> JList([current.items EXCEPT ![IntOf(segment) + 1] = sub.v])]
              ELSE [ok |-> FALSE, v |-> current]
         ELSE IF ~IsDict(current) \/ ~Has(current, segment)
         THEN [ok |-> FALSE, v |-> current]
         ELSE IF Get(current, segment) = JNone
         THEN [ok |-> FALSE, v |-> current]
         ELSE LET sub == SetAt(Get(current, segment), Tail(remainder), value)
              IN [ok |-> sub.ok, v |-> Put(current, segment, sub.v)]

\* workflow with the node at a position of its nodes mapping replaced
WithNode(wf, pos, node) ==
    Put(wf, "nodes", [Get(wf, "nodes") EXCEPT !.vals[pos] = node])

\* _apply_single on a target already split at its points: the workflow
\* afterwards and how the call ended ("set", "skipped", or "exception" for an
\* AttributeError on a node that is no mapping)
ApplySingle(wf, target, value) ==
    LET nodes == Or(Get(wf, "nodes"), EmptyDict)
        node_identifier == target[1]
        remainder == Tail(target)
        skipped == [wf |-> wf, log |-> "skipped"]
    IN
    IF remainder = <<>>
    THEN LET input_node == FindInputTarget(nodes, node_identifier)
             found == FindNode(nodes, node_identifier)
         IN IF input_node # 0
            THEN [wf |-> WithNode(wf, input_node,
                                  Put(nodes.vals[input_node], node_identifier,
                                      ConvertValue(value))),
                  log |-> "set"]
            ELSE IF found # 0 /\ Truthy(nodes.vals[found])
            THEN IF ~IsDict(nodes.vals[found])
                 THEN [wf |-> wf, log |-> "exception"]
                 ELSE LET w == SetWidgetValue(nodes.vals[found], value, node_identifier)
                      IN IF w.ok
                         THEN [wf |-> WithNode(wf, found, w.node), log |-> "set"]
                         ELSE skipped
            ELSE skipped
    ELSE LET found == FindNode(nodes, node_identifier) IN
         IF found = 0 THEN skipped
         ELSE LET walk == SetAt(nodes.vals[found], remainder, value) IN
              IF walk.ok
              THEN [wf |-> WithNode(wf, found, walk.v), log |-> "set"]
              ELSE skipped

\* --------------------------------------------- workflows and overrides
\* nodes a workflow file holds: a sampler with an integer id, mapping inputs
\* and a list below them; a node without id, named, with a list of inputs; a
\* node whose string id collides with the sampler's and whose class_type equals
\* the sampler's type; and an entry that is no node
NodeA ==
    JDict(<<"id", "type", "inputs", "widgets_values">>,
          <<JInt(3), JStr("KSampler"),
            JDict(<<"seed", "cfg">>, <<JInt(1), JList(<<JInt(8), JInt(9)>>)>>),
            JList(<<JInt(5), JStr("euler")>>)>>)
NodeB ==
    JDict(<<"name", "inputs">>,
          <<JStr("B"),
            JList(<<JDict(<<"name", "value">>, <<JStr("image"), JStr("a.png")>>)>>)>>)
NodeC ==
    JDict(<<"id", "title", "class_type">>, <<JStr("3"), JStr("T"), JStr("KSampler")>>)
Junk == JStr("junk")
NodePool == {NodeA, NodeB, NodeC, Junk}

\* all sequences over a set up to a length
SeqsUpTo(S, n) == UNION {[1..k -> S] : k \in 0..n}

\* a workflow file with its nodes as a list
ListWorkflow(items) == JDict(<<"nodes">>, <<JList(items)>>)

\* workflow documents: nodes as any list over the pool, nodes already keyed
\* (one key holding no node), and a document without nodes
Workflows ==
    {ListWorkflow(items) : items \in SeqsUpTo(NodePool, MaxNodes)}
    \cup {JDict(<<"nodes">>, <<JDict(<<"5", "3">>, <<Junk, NodeA>>)>>),
          JDict(<<"links">>, <<JList(<<>>)>>)}

\* first segments and later segments of the targets tried
NodeIdentifiers == {"3", "0", "B", "T", "KSampler", "seed", "5"}
PathSegments == {"inputs", "seed", "cfg", "0", "2", "name"}

\* override values: strings of every syntax class, and values that are no string
ValueStrings == {"7", "20", "007", "0.2", "1.50", ".5", "7.", "-3", "auto", "",
                 "1.2.3", "-"}
Values == {JStr(s) : s \in ValueStrings} \cup {JInt(4), JFloat(5, 1), JNone,
                                               JList(<<JStr("7")>>)}

\* a parameter of apply_parameters, its target split at the points (an empty
\* target is the empty sequence)
Param(target, value) == [target |-> target, value |-> value]

\* targets of more than one segment
LongTargets ==
    {<<n>> \o r : n \in NodeIdentifiers,
                  r \in SeqsUpTo(PathSegments, MaxSegments - 1) \ {<<>>}}

\* single overrides: every target with one value, three targets with every value
SingleParams ==
    {Param(t, JStr("7")) : t \in LongTargets}
    \cup {Param(t, v) : t \in {<<"3", "inputs", "seed">>, <<"3", "inputs", "cfg", "0">>,
                               <<"B", "inputs", "0", "value">>},
                        v \in Values}

\* overrides of the batches: resolvable ones, one per way of not resolving, a
\* single-segment one, one that renames a node, an empty target and one that
\* names the key holding no node
BatchParams ==
    {Param(<<"3", "inputs", "seed">>, JStr("7")),
     Param(<<"B", "inputs", "0", "value">>, JStr("1.50")),
     Param(<<"nope", "inputs", "seed">>, JStr("7")),
     Param(<<"3", "missing", "seed">>, JStr("7")),
     Param(<<"3", "inputs", "cfg", "2">>, JStr("7")),
     Param(<<"3", "id", "seed">>, JStr("7")),
     Param(<<"seed">>, JStr("0.2")),
     Param(<<"B", "name">>, JStr("auto")),
     Param(<<>>, JStr("7")),
     Param(<<"5">>, JStr("7"))}

\* a parser exception that leaves apply_parameters
ParserParamNoCatch ==
    /\ parser_pc = "loop"
    /\ param_pos <= Len(parameters)
    /\ LET param == parameters[param_pos]
           done == IF param.target = <<>> THEN [wf |-> workflow, log |-> "empty"]
                   ELSE ApplySingle(workflow, param.target, param.value)
       IN /\ workflow' = done.wf
          /\ parser_log' = Append(parser_log, done.log)
          /\ parser_pc' = IF done.log = "exception" THEN "raised" ELSE parser_pc
    /\ param_pos' = param_pos + 1
    /\ UNCHANGED <<workflow_given, parameters>>
    /\ UNCHANGED notParserVars

\* apply_parameters, line 25
ParserCall ==
    /\ parser_pc = "call"
    /\ workflow' = NormalizeNodes(workflow)
    /\ param_pos' = 1
    /\ parser_pc' = "loop"
    /\ UNCHANGED <<workflow_given, parameters, parser_log>>
    /\ UNCHANGED notParserVars

\* apply_parameters, lines 26-34: one parameter of the loop; an exception of
\* _apply_single is caught and logged
ParserParam ==
    /\ parser_pc = "loop"
    /\ param_pos <= Len(parameters)
    /\ LET param == parameters[param_pos]
           done == IF param.target = <<>> THEN [wf |-> workflow, log |-> "empty"]
                   ELSE ApplySingle(workflow, param.target, param.value)
       IN /\ workflow' = done.wf
          /\ parser_log' = Append(parser_log, done.log)
    /\ param_pos' = param_pos + 1
    /\ UNCHANGED <<parser_pc, workflow_given, parameters>>
    /\ UNCHANGED notParserVars

\* apply_parameters, line 35
ParserReturn ==
    /\ parser_pc = "loop"
    /\ param_pos > Len(parameters)
    /\ parser_pc' = "returned"
    /\ UNCHANGED <<workflow, workflow_given, parameters, param_pos, parser_log>>
    /\ UNCHANGED notParserVars

ParserNext == ParserCall \/ ParserParam \/ ParserReturn

\* apply_parameters called with a workflow and a list of parameters
ParserInit(params) ==
    /\ EnhancerIdle
    /\ SegIdle
    /\ FadeIdle
    /\ OnceIdle
    /\ CompileIdle
    /\ parser_pc = "call"
    /\ workflow \in Workflows
    /\ workflow_given = workflow
    /\ parameters \in params
    /\ param_pos = 0
    /\ parser_log = <<>>

\* one override of more than one segment
OverrideSpec == ParserInit({<<p>> : p \in SingleParams}) /\ [][ParserNext]_vars

\* a batch of overrides
BatchSpec == ParserInit(SeqsUpTo(BatchParams, MaxBatch)) /\ [][ParserNext]_vars

RECURSIVE ReadAt(_, _)
\* the value a path leads to from current: each segment an existing key of a
\* mapping or an index within a list
ReadAt(current, segments) ==
    IF segments = <<>> THEN [ok |-> TRUE, v |-> current]
    ELSE IF IsList(current) /\ IsDigitStr(segments[1])
    THEN IF IntOf(segments[1]) < Len(current.items)
         THEN ReadAt(current.items[IntOf(segments[1]) + 1], Tail(segments))
         ELSE [ok |-> FALSE, v |-> JNone]
    ELSE IF IsDict(current) /\ Has(current, segments[1])
    THEN ReadAt(Get(current, segments[1]), Tail(segments))
    ELSE [ok |-> FALSE, v |-> JNone]

\* the node the first segment of a target locates: a position of nodes, or 0
Located(wf, target) == FindNode(Or(Get(wf, "nodes"), EmptyDict), target[1])

\* re-reading a target: the node its first segment locates, then the path
ReadPath(wf, target) ==
    IF Located(wf, target) = 0 THEN [ok |-> FALSE, v |-> JNone]
    ELSE ReadAt(Get(wf, "nodes").vals[Located(wf, target)], Tail(target))

\* a multi-segment target is resolvable: a node is located, the intermediate
\* segments lead to a mapping, or to a list in which the leaf is an index
Resolvable(wf, target) ==
    /\ Len(target) > 1
    /\ Located(wf, target) # 0
    /\ LET parent == ReadAt(Get(wf, "nodes").vals[Located(wf, target)],
                            SubSeq(target, 2, Len(target) - 1))
           leaf == target[Len(target)]
       IN /\ parent.ok
          /\ \/ IsDict(parent.v)
             \/ IsList(parent.v) /\ IsDigitStr(leaf) /\ IntOf(leaf) < Len(parent.v.items)

\* the value read back is the override's value converted as the rule says
ReadsConverted(read, value) ==
    /\ read.ok
    /\ read.v = ConvertValue(value)
    /\ (IsStr(value) /\ IsDigitStr(value.s)) => read.v = JInt(IntOf(value.s))
    /\ (IsStr(value) /\ ~IsDigitStr(value.s) /\ FloatParseable(value.s)) =>
           read.v.t = "float"
    /\ (IsStr(value) /\ ~IsDigitStr(value.s) /\ ~FloatParseable(value.s)) =>
           read.v = value
    /\ ~IsStr(value) => read.v = value

\* C14 as stated: after a single override with a resolvable multi-segment
\* target, re-reading the target gives the converted value.
C14_OverrideRoundTrip ==
    (parser_pc = "returned" /\ Len(parameters) = 1
       /\ Resolvable(NormalizeNodes(workflow_given), parameters[1].target)) =>
        ReadsConverted(ReadPath(workflow, parameters[1].target), parameters[1].value)

\* C14 amended: the same for every such override after which the first
\* segment of the target still locates the node it located before; the
\* conversion gives "7" -> 7, "0.2" -> 0.2, "auto" -> "auto".
C14_OverrideRoundTripSameNode ==
    /\ ConvertValue(JStr("7")) = JInt(7)
    /\ ConvertValue(JStr("0.2")) = JFloat(2, 1)
    /\ ConvertValue(JStr("auto")) = JStr("auto")
    /\ (parser_pc = "returned" /\ Len(parameters) = 1
          /\ Resolvable(NormalizeNodes(workflow_given), parameters[1].target)
          /\ Located(workflow, parameters[1].target)
               = Located(NormalizeNodes(workflow_given), parameters[1].target)) =>
           /\ parser_log = <<"set">>
           /\ ReadsConverted(ReadPath(workflow, parameters[1].target),
                             parameters[1].value)

\* a float string written through a list index of a node found by its name
C14_Witness ==
    /\ parser_pc = "returned"
    /\ parameters = <<Param(<<"B", "inputs", "0", "value">>, JStr("1.50"))>>
    /\ Resolvable(NormalizeNodes(workflow_given), parameters[1].target)
    /\ ReadPath(workflow, parameters[1].target) = [ok |-> TRUE, v |-> JFloat(15, 1)]

RECURSIVE ApplyAll(_, _)
\* the loop of apply_parameters over a list of parameters, on a normalised
\* workflow
ApplyAll(wf, params) ==
    IF params = <<>> THEN wf
    ELSE LET rest == ApplyAll(wf, SubSeq(params, 1, Len(params) - 1))
             last == params[Len(params)]
         IN IF last.target = <<>> THEN rest
            ELSE ApplySingle(rest, last.target, last.value).wf

RECURSIVE AppliedUpTo(_)
\* the first n parameters of the call without those that set nothing
AppliedUpTo(n) ==
    IF n = 0 THEN <<>>
    ELSE IF parser_log[n] = "set" THEN Append(AppliedUpTo(n - 1), parameters[n])
    ELSE AppliedUpTo(n - 1)

\* C15: apply_parameters never raises; an override that does not resolve (or is
\* empty, or ends in an exception) leaves the document as it was; and the
\* document returned is the one the batch without those overrides gives.
C15_FailuresIsolated ==
    /\ [](parser_pc # "raised")
    /\ []((parser_pc = "returned") =>
            /\ Len(parser_log) = Len(parameters)
            /\ workflow = ApplyAll(NormalizeNodes(workflow_given),
                                   AppliedUpTo(Len(parameters))))
    /\ [][(Len(parser_log') > Len(parser_log)
             /\ parser_log'[Len(parser_log')] # "set") => workflow' = workflow]_vars

\* a batch whose first override named a missing path segment and whose second
\* was applied
C15_Witness ==
    /\ parser_pc = "returned"
    /\ parser_log = <<"skipped", "set">>
    /\ parameters[1] = Param(<<"3", "missing", "seed">>, JStr("7"))
    /\ workflow # NormalizeNodes(workflow_given)

\* C16: for a workflow whose nodes are a list, normalising the normalised
\* workflow gives the same id-keyed mapping, keys and nodes in the same order,
\* as normalising once.
C16_NormalizeIdempotent ==
    IsList(Get(workflow_given, "nodes")) =>
        /\ NormalizeNodes(NormalizeNodes(workflow_given)) = NormalizeNodes(workflow_given)
        /\ IsDict(Get(NormalizeNodes(workflow_given), "nodes"))
        /\ (parser_pc = "loop" /\ param_pos = 1) =>
               /\ workflow = NormalizeNodes(workflow_given)
               /\ NormalizeNodes(workflow) = workflow

\* a list with an entry that is no node before a node without id, normalised
C16_Witness ==
    /\ parser_pc = "loop"
    /\ param_pos = 1
    /\ workflow_given = ListWorkflow(<<Junk, NodeB>>)
    /\ Get(workflow, "nodes") = JDict(<<"1">>, <<NodeB>>)

\* ------------------------------------------- _extract_mask_components
Min2(a, b) == IF a < b THEN a ELSE b
Max2(a, b) == IF a > b THEN a ELSE b

\* RegionRect(x, y, width, height)
RegionRect(x, y, w, h) == [x |-> x, y |-> y, width |-> w, height |-> h]

\* local pixel_count
PixelCount == bounds.width * bounds.height

\* local channels
Channels == Max2(1, Len(buf) \div PixelCount)

\* a pixel counts as selected from half of full alpha on
AlphaAtHalf(i) ==
    LET a == IF Channels = 1 THEN buf[i + 1]
             ELSE IF Channels >= 4 THEN buf[i * Channels + 3 + 1]
             ELSE buf[i * Channels + 1]
    IN IF a >= 128 THEN a ELSE 0

\* alpha_at(idx), idx 0-based
AlphaAt(i) ==
    IF Channels = 1 THEN buf[i + 1]
    ELSE IF Channels >= 4 THEN buf[i * Channels + 3 + 1]
    ELSE buf[i * Channels + 1]

\* the body of the loop over (dx, dy) for one neighbour (nx, ny): st holds the
\* stack, the visited marks and the bounding box so far
VisitNeighbour(st, nx, ny) ==
    IF ~(0 <= nx /\ nx < bounds.width /\ 0 <= ny /\ ny < bounds.height) THEN st
    ELSE LET nidx == ny * bounds.width + nx
             s == st
         IN IF nidx \in s.visited THEN s
            ELSE IF AlphaAt(nidx) = 0 THEN [s EXCEPT !.visited = @ \cup {nidx}]
            ELSE [stack |-> Append(s.stack, nidx),
                  visited |-> s.visited \cup {nidx},
                  minx |-> Min2(s.minx, nx), maxx |-> Max2(s.maxx, nx),
                  miny |-> Min2(s.miny, ny), maxy |-> Max2(s.maxy, ny)]

RECURSIVE Flood(_)
\* the loop `while stack`: pop a pixel, visit its right, left, lower and upper
\* neighbour
Flood(st) ==
    IF st.stack = <<>> THEN st
    ELSE LET pix == st.stack[Len(st.stack)]
             x == pix % bounds.width
             y == pix \div bounds.width
             popped == [st EXCEPT !.stack = SubSeq(@, 1, Len(@) - 1)]
             right == VisitNeighbour(popped, x + 1, y)
             left == VisitNeighbour(right, x - 1, y)
             lower == VisitNeighbour(left, x, y + 1)
             upper == VisitNeighbour(lower, x, y - 1)
         IN Flood(upper)

RECURSIVE NextSeed(_)
\* the loop `for idx in range(pixel_count)` from index i on: the first pixel
\* that is not visited and has alpha, or pixel_count when the scan runs out
NextSeed(i) ==
    IF i >= PixelCount THEN PixelCount
    ELSE IF i \notin visited /\ AlphaAt(i) # 0 THEN i
    ELSE NextSeed(i + 1)

\* the pixels the scan passes on its way from seg_idx to index i; those
\* without alpha are marked visited
Passed(i) == {j \in seg_idx..(i - 1) : j \notin visited}

\* lines 945-968: the bounds were read and pixelData has answered; without
\* data or without pixels the empty list is returned
SegStart ==
    /\ seg_pc = "call"
    /\ IF buf = <<>> \/ PixelCount = 0
       THEN seg_pc' = "returned"
       ELSE seg_pc' = "scan"
    /\ visited' = {}
    /\ seg_idx' = 0
    /\ components' = <<>>
    /\ UNCHANGED <<bounds, buf>>
    /\ UNCHANGED notSegVars

\* lines 982-1019: the scan goes on to the next pixel that is not visited and
\* has alpha, marking what it passes, fills the component from there and
\* appends its bounding box; at max_components it leaves the loop
SegComponent ==
    /\ seg_pc = "scan"
    /\ NextSeed(seg_idx) < PixelCount
    /\ \E seed \in {NextSeed(seg_idx)} :
         \E filled \in {Flood([stack |-> <<seed>>,
                                visited |-> visited \cup Passed(seed) \cup {seed},
                                minx |-> seed % bounds.width,
                                maxx |-> seed % bounds.width,
                                miny |-> seed \div bounds.width,
                                maxy |-> seed \div bounds.width])} :
            /\ visited' = filled.visited
            /\ components' = Append(components,
                   RegionRect(bounds.x0 + filled.minx, bounds.y0 + filled.miny,
                              filled.maxx - filled.minx + 1,
                              filled.maxy - filled.miny + 1))
            /\ seg_idx' = seed + 1
            /\ seg_pc' = IF Len(components) + 1 >= MaxComponents
                         THEN "returned" ELSE "scan"
    /\ UNCHANGED <<bounds, buf>>
    /\ UNCHANGED notSegVars

\* the scan reaches the end of the buffer; lines 1021-1023
SegReturn ==
    /\ seg_pc = "scan"
    /\ NextSeed(seg_idx) = PixelCount
    /\ visited' = visited \cup (seg_idx..(PixelCount - 1))
    /\ seg_idx' = PixelCount
    /\ seg_pc' = "returned"
    /\ UNCHANGED <<bounds, buf, components>>
    /\ UNCHANGED notSegVars

SegNext == SegStart \/ SegComponent \/ SegReturn

\* the bytes pixelData gives for a mask: one byte per pixel, or four with the
\* alpha last behind three colour bytes
MaskBytes(alphas, channels) ==
    IF channels = 1 THEN alphas
    ELSE [i \in 1..(4 * Len(alphas)) |->
            IF i % 4 = 0 THEN alphas[i \div 4] ELSE (IF i % 4 = 1 THEN 0 ELSE 255)]

\* a row of single selected pixels with one clear pixel between neighbours
Stripes(n) == [i \in 1..(2 * n - 1) |-> IF i % 2 = 1 THEN 255 ELSE 0]

\* a selection whose mask is read: any mask of MaskWidth x MaskHeight pixels of
\* alpha 0 or 255 with one byte a pixel at the origin; any mask one row lower
\* of alpha 0 or 1 with four bytes a pixel away from the origin; rows of
\* MaxComponents and of one more component; or no data
SegInit ==
    /\ EnhancerIdle
    /\ ParserIdle
    /\ FadeIdle
    /\ OnceIdle
    /\ CompileIdle
    /\ seg_pc = "call"
    /\ visited = {}
    /\ seg_idx = 0
    /\ components = <<>>
    /\ \/ /\ bounds = [x0 |-> 0, y0 |-> 0, width |-> MaskWidth, height |-> MaskHeight]
          /\ \E alphas \in [1..(MaskWidth * MaskHeight) -> {0, 255}] :
               buf = MaskBytes(alphas, 1)
       \/ /\ bounds = [x0 |-> 2, y0 |-> 1, width |-> MaskWidth,
                       height |-> MaskHeight - 1]
          /\ \E alphas \in [1..(MaskWidth * (MaskHeight - 1)) -> {0, 1}] :
               buf = MaskBytes(alphas, 4)
       \/ /\ \E n \in {MaxComponents, MaxComponents + 1} :
               /\ bounds = [x0 |-> 0, y0 |-> 0, width |-> 2 * n - 1, height |-> 1]
               /\ buf = Stripes(n)
       \/ /\ bounds = [x0 |-> 0, y0 |-> 0, width |-> MaskWidth, height |-> MaskHeight]
          /\ buf = <<>>

SegSpec == SegInit /\ [][SegNext]_vars

\* ---- what a mask holds, read off its bytes without the scan ----

\* the alpha of pixel i (0-based): the last byte of the pixel
PixelAlpha(i) == buf[(i + 1) * (Len(buf) \div PixelCount)]

\* the pixels of the mask with alpha above 0
Foreground == {i \in 0..(PixelCount - 1) : PixelAlpha(i) > 0}

\* the pixels of the mask next to pixel p along its row or its column
Neighbours(p) ==
    {q \in {p - 1, p + 1} : q >= 0 /\ q \div bounds.width = p \div bounds.width}
        \cup {q \in {p - bounds.width, p + bounds.width} : 0 <= q /\ q < PixelCount}

RECURSIVE Grow(_, _)
\* the pixels of fg reachable from the set S over neighbours
Grow(S, fg) ==
    IF (fg \cap UNION {Neighbours(p) : p \in S}) \subseteq S THEN S
    ELSE Grow(S \cup (fg \cap UNION {Neighbours(p) : p \in S}), fg)

\* the least and the greatest of a set of numbers
Least(S) == CHOOSE a \in S : \A b \in S : a <= b
Greatest(S) == CHOOSE a \in S : \A b \in S : a >= b

RECURSIVE ComponentsOf(_)
\* the 4-connected components of a set of pixels: the one its least pixel
\* lies in, and those of the rest
ComponentsOf(fg) ==
    IF fg = {} THEN {}
    ELSE UNION {{comp} \cup ComponentsOf(fg \ comp) :
                   comp \in {Grow({Least(fg)}, fg)}}

\* the 4-connected components of the foreground
TrueComponents == ComponentsOf(Foreground)

\* the tight bounding box of a set of pixels, in document coordinates
BoundingBox(C) ==
    \* the columns and the rows the pixels lie in
    LET xs == {p % bounds.width : p \in C}
        ys == {p \div bounds.width : p \in C}
    IN RegionRect(bounds.x0 + Least(xs), bounds.y0 + Least(ys),
                  Greatest(xs) - Least(xs) + 1, Greatest(ys) - Least(ys) + 1)

\* C17: when the segmenter has returned for a mask with data whose foreground
\* has k 4-connected components, 1 <= k <= 32, it returns exactly k regions,
\* every region is the tight bounding box, offset by the mask origin, of
\* exactly one component, and every component has its region
C17_OneTightBoxPerComponent ==
    (seg_pc = "returned" /\ buf # <<>> /\ PixelCount > 0) =>
        \A comps \in {TrueComponents} :
            (1 <= Cardinality(comps) /\ Cardinality(comps) <= MaxComponents) =>
                \A box \in {[C \in comps |-> BoundingBox(C)]} :
                    /\ Len(components) = Cardinality(comps)
                    /\ \A i \in 1..Len(components) :
                           Cardinality({C \in comps : components[i] = box[C]}) = 1
                    /\ \A C \in comps :
                           \E i \in 1..Len(components) : components[i] = box[C]

\* a mask away from the origin with two components was segmented into two
\* regions
C17_Witness ==
    /\ seg_pc = "returned"
    /\ buf # <<>>
    /\ bounds.x0 > 0
    /\ Cardinality(TrueComponents) = 2
    /\ Len(components) = 2

\* the pixels a region covers
Footprint(r) == (r.x..(r.x + r.width - 1)) \X (r.y..(r.y + r.height - 1))

\* C18: any two distinct regions the segmenter has derived from a mask share
\* no pixel of their footprints
C18_RegionsDisjoint ==
    \A i, j \in 1..Len(components) :
        i # j => Footprint(components[i]) \cap Footprint(components[j]) = {}

\* ------------------------------------------- edge fade and hole punch
\* A fade ratio and a scaling factor are fractions num / den with den > 0.
\* Over the sizes and ratios drawn below the double products of the code have
\* the integer part of the exact product.

\* int(v) of v = num / den: the integer part, cut toward zero
IntTrunc(num, den) == IF num >= 0 THEN num \div den ELSE -((-num) \div den)

\* fade = max(1, int(min(width, height) * fade_ratio))
FadeWidth(width, height, ratio) ==
    Max2(1, IntTrunc(Min2(width, height) * ratio.num, ratio.den))

\* dist taken from the left and the upper edge only
EdgeDistNear(x, y, width, height) == Min2(x, y)

\* dist = min(x, y, width - 1 - x, height - 1 - y)
EdgeDist(x, y, width, height) ==
    Min2(Min2(x, y), Min2(width - 1 - x, height - 1 - y))

\* alpha_index(x, y) and idx(x, y): where the alpha byte of pixel (x, y) lies,
\* counted from 1
AlphaIndex(x, y, width) == (y * width + x) * 4 + 3 + 1

\* factor = max(0.0, min(1.0, dist / float(fade)))
EdgeFactor(dist, fade) ==
    IF dist <= 0 THEN [num |-> 0, den |-> 1]
    ELSE IF dist >= fade THEN [num |-> 1, den |-> 1]
    ELSE [num |-> dist, den |-> fade]

\* the factor of the edge fade taken for the hole
HoleFactorDirect(dist, fade) == [num |-> dist, den |-> fade]

\* factor = max(0.0, 1.0 - (dist / float(fade)))
HoleFactor(dist, fade) ==
    IF dist >= fade THEN [num |-> 0, den |-> 1]
    ELSE [num |-> fade - dist, den |-> fade]

\* int(original_alpha * factor)
ScaledAlpha(alpha, factor) == IntTrunc(alpha * factor.num, factor.den)

\* the pixels (x, y) of the loops over y and x whose alpha byte is byte i
WrittenBy(i, width, height) ==
    {xy \in (0..(width - 1)) \X (0..(height - 1)) :
        AlphaIndex(xy[1], xy[2], width) = i}

\* lines 711-719: the loops over y and x; no byte is written twice, so the
\* bytes are taken one by one, each with the pixel that writes it
EdgeFadeLoop(data, width, height, fade) ==
    [i \in 1..Len(data) |->
        IF \E xy \in WrittenBy(i, width, height) :
               EdgeDist(xy[1], xy[2], width, height) < fade
        THEN LET xy == CHOOSE c \in WrittenBy(i, width, height) : TRUE
             IN ScaledAlpha(data[i],
                    EdgeFactor(EdgeDist(xy[1], xy[2], width, height), fade))
        ELSE data[i]]

\* lines 926-935: the loops over y and x, taken byte by byte in the same way
HoleLoop(data, width, height, fade) ==
    [i \in 1..Len(data) |->
        IF WrittenBy(i, width, height) = {} THEN data[i]
        ELSE LET xy == CHOOSE c \in WrittenBy(i, width, height) : TRUE
                 dist == EdgeDist(xy[1], xy[2], width, height)
             IN IF dist >= fade THEN 0
                ELSE ScaledAlpha(data[i], HoleFactor(dist, fade))]

\* where byte c of the pixel (x, y) lies in the bytes of a surface of the
\* given width, counted from 1
ByteIndex(x, y, c, width) == (y * width + x) * 4 + c + 1

\* layer.pixelData(x, y, w, h): the bytes of the pixels of the layer under the
\* rectangle r, row by row
PixelData(layer, r) ==
    [i \in 1..(4 * r.width * r.height) |->
        LET q == (i - 1) \div 4
        IN layer.data[ByteIndex(r.x + (q % r.width), r.y + (q \div r.width),
                                (i - 1) % 4, layer.width)]]

\* the pixel (lx, ly) of a layer lies under the rectangle r
Under(r, lx, ly) ==
    /\ r.x <= lx /\ lx < r.x + r.width
    /\ r.y <= ly /\ ly < r.y + r.height

\* layer.setPixelData(bytes, x, y, w, h): the pixels under r take the bytes,
\* the others keep theirs
SetPixelData(layer, bytes, r) ==
    [layer EXCEPT !.data =
        [j \in 1..Len(layer.data) |->
            LET q == (j - 1) \div 4
                lx == q % layer.width
                ly == q \div layer.width
            IN IF Under(r, lx, ly)
               THEN bytes[ByteIndex(lx - r.x, ly - r.y, (j - 1) % 4, r.width)]
               ELSE layer.data[j]]]

\* _apply_edge_fade, lines 698-722
ApplyEdgeFade ==
    /\ fade_pc = "edge_fade"
    /\ surface' =
         IF surface.width = 0 \/ surface.height = 0 THEN surface
         ELSE [surface EXCEPT !.data =
                  EdgeFadeLoop(@, surface.width, surface.height,
                               FadeWidth(surface.width, surface.height, fade_ratio))]
    /\ fade_pc' = "edge_returned"
    /\ UNCHANGED <<rect, fade_ratio, pixel_data>>
    /\ UNCHANGED notFadeVars

\* _punch_hole_on_layer, lines 910-941: a rectangle without width or height,
\* a layer that gives no data and an exception leave the layer as it is
PunchHoleOnLayer ==
    /\ fade_pc = "punch_hole"
    /\ surface' =
         IF rect.width <= 0 \/ rect.height <= 0 THEN surface
         ELSE IF pixel_data # "data" THEN surface
         ELSE SetPixelData(surface,
                  HoleLoop(PixelData(surface, rect), rect.width, rect.height,
                           FadeWidth(rect.width, rect.height, fade_ratio)),
                  rect)
    /\ fade_pc' = "punch_returned"
    /\ UNCHANGED <<rect, fade_ratio, pixel_data>>
    /\ UNCHANGED notFadeVars

FadeNext == ApplyEdgeFade \/ PunchHoleOnLayer

\* the fade ratios tried: below zero, zero, the default 0.1, 0.2, a third, a
\* half, one and one and a half
FadeRatios ==
    {[num |-> -1, den |-> 10], [num |-> 0, den |-> 1], [num |-> 1, den |-> 10],
     [num |-> 2, den |-> 10], [num |-> 1, den |-> 3], [num |-> 1, den |-> 2],
     [num |-> 1, den |-> 1], [num |-> 3, den |-> 2]}

\* how the alpha of a surface is laid out: full everywhere, the least
\* everywhere, or different from pixel to pixel
AlphaPatterns == {"opaque", "faint", "graded"}

\* the ARGB32 bytes of a surface of width x height pixels: three colour bytes
\* that differ from pixel to pixel, then the alpha
SurfaceBytes(width, height, pattern) ==
    [i \in 1..(4 * width * height) |->
        IF i % 4 # 0 THEN (40 * (i % 4) + ((i - 1) \div 4)) % 256
        ELSE IF pattern = "opaque" THEN 255
        ELSE IF pattern = "faint" THEN 1
        ELSE (90 + 35 * (i \div 4)) % 256]

Surface(width, height, pattern) ==
    [width |-> width, height |-> height,
     data |-> SurfaceBytes(width, height, pattern)]

\* an image of up to MaxImage pixels a side, or the uniform opaque image of 10
\* by 10 pixels with ratio 0.2, is about to be faded; or a hole is about to be
\* punched into a layer of LayerSide pixels a side under a rectangle that lies
\* on the layer
FadeInit ==
    /\ EnhancerIdle
    /\ ParserIdle
    /\ SegIdle
    /\ OnceIdle
    /\ CompileIdle
    /\ fade_ratio \in FadeRatios
    /\ \/ /\ fade_pc = "edge_fade"
          /\ rect = <<>>
          /\ pixel_data = "data"
          /\ \/ \E w \in 0..MaxImage, h \in 0..MaxImage, pattern \in AlphaPatterns :
                  surface = Surface(w, h, pattern)
             \/ /\ surface = Surface(10, 10, "opaque")
                /\ fade_ratio = [num |-> 2, den |-> 10]
       \/ /\ fade_pc = "punch_hole"
          /\ pixel_data \in {"data", "empty", "raise"}
          /\ \E pattern \in AlphaPatterns :
               surface = Surface(LayerSide, LayerSide, pattern)
          /\ \E x \in 0..1, y \in 0..1, w \in (-1)..LayerSide, h \in (-1)..LayerSide :
               /\ x + w <= LayerSide
               /\ y + h <= LayerSide
               /\ rect = RegionRect(x, y, w, h)

FadeSpec == FadeInit /\ [][FadeNext]_vars

\* ---- what the fade and the punch are to do, stated on the pixels ----

\* the alpha and the colour bytes of pixel (x, y) of a surface
AlphaOf(sf, x, y) == sf.data[4 * (y * sf.width + x) + 4]
ColourOf(sf, x, y) ==
    <<sf.data[4 * (y * sf.width + x) + 1], sf.data[4 * (y * sf.width + x) + 2],
      sf.data[4 * (y * sf.width + x) + 3]>>

\* how many pixels lie between (x, y) and the nearest edge of width x height
Ring(x, y, width, height) == Least({x, y, width - 1 - x, height - 1 - y})

\* max(1, floor(min(width, height) * ratio))
RingCount(width, height, ratio) ==
    Greatest({1, (Least({width, height}) * ratio.num) \div ratio.den})

\* b is a scaled by num / den, cut to a whole number
IsScaled(b, a, num, den) == b * den <= a * num /\ a * num < (b + 1) * den

NoData == "None"

\* any HTTP error taken for "not found yet"
OnceToleratedAnyHttp(ans) == ans.kind = "http"

\* line 96: if exc.code == 404
OnceTolerated(ans) == ans.kind = "http" /\ ans.code = 404

\* poll_once, lines 88-99: one status GET, unwrapped and classified
PollOnce ==
    /\ once_pc = "call"
    /\ once_calls' = Append(once_calls, "get")
    /\ IF server_answer.kind # "json"
       THEN IF OnceTolerated(server_answer)
            THEN /\ once_pc' = "returned"
                 /\ once_result' = [status |-> "pending", data |-> NoData]
                 /\ UNCHANGED once_raised
            ELSE /\ once_pc' = "raised"
                 /\ once_raised' = (IF server_answer.kind = "http" THEN ExcHttp
                                    ELSE ExcOther)
                 /\ UNCHANGED once_result
       ELSE /\ once_pc' = "returned"
            /\ once_result' = [status |-> ExtractStatus(UnwrapHistory(server_answer.body)),
                               data |-> UnwrapHistory(server_answer.body)]
            /\ UNCHANGED once_raised
    /\ UNCHANGED server_answer
    /\ UNCHANGED notOnceVars

\* the status GET of poll_result for the same task, whose answer stays what
\* it is
OncePollGet ==
    /\ once_pc # "off"
    /\ PollGetFrom({server_answer}, 0..MaxLatency)

\* poll_result and poll_once are called for a task to which the server gives
\* one answer
OnceInit ==
    /\ PollReady
    /\ ParserIdle
    /\ SegIdle
    /\ FadeIdle
    /\ CompileIdle
    /\ once_pc = "call"
    /\ server_answer \in Answers
    /\ once_result = <<>>
    /\ once_raised = "none"
    /\ once_calls = <<>>

OnceNext ==
    \/ PollOnce
    \/ PollStart
    \/ PollLoopCheck
    \/ PollStopCheck
    \/ PollTick
    \/ OncePollGet
    \/ PollSleep

OnceSpec == OnceInit /\ [][OnceNext]_vars

\* C21: when poll_once has ended it has made one status request and slept
\* never; a 404 gave (pending, none); a JSON answer classified as error was
\* returned as a value; and whenever poll_result has fetched the same answer,
\* poll_once gave the classification and the unwrapped data poll_result's
\* iteration assigned to it, a 404 counting as pending in both, and poll_once
\* raised exactly when the iteration raised for the request itself
C21_PollOnceAgreesWithPoll ==
    once_pc \in {"returned", "raised"} =>
        /\ once_calls = <<"get">>
        /\ (server_answer.kind = "http" /\ server_answer.code = 404) =>
               /\ once_pc = "returned"
               /\ once_result = [status |-> "pending", data |-> NoData]
        /\ server_answer.kind = "json" =>
               /\ once_pc = "returned"
               /\ once_result.status \in {"pending", "done", "error"}
        /\ raw = server_answer =>
               /\ raw.kind = "json" =>
                      /\ once_result.status = status_class
                      /\ status_class = "done" => once_result.data = result
                      /\ status_class = "error" =>
                             pc = "raised" /\ raised = ExcRemote
                      /\ status_class = "pending" => pc \notin {"raised", "returned"}
                                                     \/ raised \in {ExcTimeout, ExcCancelled}
               /\ (raw.kind # "json" /\ pc \in {"sleep", "loop", "stop", "tick", "get"}) =>
                      once_result.status = "pending"
               /\ (once_pc = "raised") <=> (raised \in {ExcHttp, ExcOther})
               /\ (once_pc = "raised") => once_raised = raised

\* poll_once returned the classification error as a value for an answer for
\* which poll_result raised
C21_Witness ==
    /\ once_pc = "returned"
    /\ once_result.status = "error"
    /\ once_calls = <<"get">>
    /\ raw = server_answer
    /\ pc = "raised"
    /\ raised = ExcRemote

\* ------------------------------------------------------------ to_prompt
\* the table `sequences` of _build_widget_map: the input names of the widgets
\* of a class, in the order of its widget values
WidgetSequences(class_type) ==
    CASE class_type = "KSampler" ->
             <<"seed", "seed_mode", "steps", "cfg", "sampler_name", "scheduler",
               "denoise">>
      [] class_type = "BNK_TiledKSampler" ->
             <<"seed", "seed_mode", "tile_width", "tile_height", "tiling_strategy",
               "steps", "cfg", "sampler_name", "scheduler", "denoise">>
      [] class_type = "DZ_Face_Detailer" ->
             <<"seed", "seed_mode", "steps", "cfg", "sampler_name", "scheduler",
               "denoise", "mask_blur", "mask_type", "mask_control",
               "dilate_mask_value", "erode_mask_value">>
      [] class_type = "ImageScale" -> <<"upscale_method", "width", "height", "crop">>
      [] class_type = "ImageScaleBy" -> <<"upscale_method", "scale_by">>
      [] class_type \in {"PrimitiveInt", "PrimitiveFloat", "PrimitiveBoolean"} ->
             <<"value">>
      [] class_type = "CheckpointLoaderSimple" -> <<"ckpt_name">>
      [] class_type = "UpscaleModelLoader" -> <<"model_name">>
      [] class_type = "LoadImage" -> <<"image", "upload">>
      [] class_type = "SaveImage" -> <<"filename_prefix">>
      [] class_type = "ImpactCompare" -> <<"cmp">>
      [] class_type = "ImpactLogicalOperators" -> <<"operator">>
      [] class_type = "EmptyLatentImage" -> <<"width", "height", "batch_size">>
      [] class_type = "CLIPTextEncode" -> <<"text">>
      [] OTHER -> <<>>

\* a widget map that holds the first widget value under every name of the table
BuildWidgetMapFirst(class_type, widgets) ==
    IF ~Truthy(class_type) \/ widgets = <<>> \/ ~IsStr(class_type) THEN EmptyDict
    ELSE JDict(WidgetSequences(class_type.s),
               [i \in 1..Len(WidgetSequences(class_type.s)) |-> widgets[1]])

\* _build_widget_map: the names of the table paired with the widget values
\* there are
BuildWidgetMap(class_type, widgets) ==
    IF ~Truthy(class_type) \/ widgets = <<>> \/ ~IsStr(class_type) THEN EmptyDict
    ELSE JDict(SubSeq(WidgetSequences(class_type.s), 1,
                      Min2(Len(WidgetSequences(class_type.s)), Len(widgets))),
               SubSeq(widgets, 1,
                      Min2(Len(WidgetSequences(class_type.s)), Len(widgets))))

RECURSIVE LinkMapFrom(_, _, _)
\* to_prompt, lines 41-50: link_map after the entries of links from i on
LinkMapFrom(entries, i, link_map) ==
    IF i > Len(entries) THEN link_map
    ELSE IF IsList(entries[i]) /\ Len(entries[i].items) >= 5
    THEN LinkMapFrom(entries, i + 1,
             Put(link_map, entries[i].items[1],
                 JDict(<<"from_node", "from_slot", "to_node", "to_slot">>,
                       <<JStr(StrOf(entries[i].items[2])), entries[i].items[3],
                         JStr(StrOf(entries[i].items[4])), entries[i].items[5]>>)))
    ELSE LinkMapFrom(entries, i + 1, link_map)

\* the key an input name makes in inputs_obj
NameKey(name) == IF IsStr(name) THEN name.s ELSE "None"

\* to_prompt, lines 76-86: what one entry of a sequence of inputs puts into
\* inputs_obj, widget_idx being the widgets consumed so far
WithInput(inputs_obj, inp, widget_idx, widgets, widget_map, link_map) ==
    IF Get(inp, "link") # JNone /\ Has(link_map, Get(inp, "link"))
    THEN Put(inputs_obj, NameKey(Get(inp, "name")),
             JList(<<Get(Get(link_map, Get(inp, "link")), "from_node"),
                     Get(Get(link_map, Get(inp, "link")), "from_slot")>>))
    ELSE IF Truthy(widget_map) /\ Has(widget_map, NameKey(Get(inp, "name")))
    THEN Put(inputs_obj, NameKey(Get(inp, "name")),
             Get(widget_map, NameKey(Get(inp, "name"))))
    ELSE IF IsDict(Get(inp, "widget")) /\ widget_idx < Len(widgets)
    THEN Put(inputs_obj, NameKey(Get(inp, "name")), widgets[widget_idx + 1])
    ELSE IF Has(inp, "value")
    THEN Put(inputs_obj, NameKey(Get(inp, "name")), Get(inp, "value"))
    ELSE inputs_obj

RECURSIVE InputsFrom(_, _, _, _, _, _, _)
\* to_prompt, lines 70-88: the loop over a sequence of inputs from entry i on
InputsFrom(entries, i, inputs_obj, widget_idx, widgets, widget_map, link_map) ==
    IF i > Len(entries) THEN inputs_obj
    ELSE IF ~IsDict(entries[i])
    THEN InputsFrom(entries, i + 1, inputs_obj, widget_idx, widgets, widget_map,
                    link_map)
    ELSE InputsFrom(entries, i + 1,
             WithInput(inputs_obj, entries[i], widget_idx, widgets, widget_map,
                       link_map),
             IF IsDict(Get(entries[i], "widget")) THEN widget_idx + 1 ELSE widget_idx,
             widgets, widget_map, link_map)

\* local widgets of to_prompt, line 63
WidgetsOf(node) ==
    IF IsList(Get(node, "widgets_values")) THEN Get(node, "widgets_values").items
    ELSE <<>>

\* local class_type of to_prompt, line 60
ClassTypeOf(node) == Or(Get(node, "type"), Get(node, "class_type"))

\* to_prompt, lines 60-95: the prompt entry of one node
PromptEntry(node, link_map) ==
    JDict(<<"class_type", "inputs">>,
          <<ClassTypeOf(node),
            IF IsList(Get(node, "inputs"))
            THEN InputsFrom(Get(node, "inputs").items, 1, EmptyDict, 0,
                            WidgetsOf(node),
                            BuildWidgetMap(ClassTypeOf(node), WidgetsOf(node)),
                            link_map)
            ELSE IF IsDict(Get(node, "inputs")) THEN Get(node, "inputs")
            ELSE EmptyDict>>)

RECURSIVE PromptFrom(_, _, _, _)
\* to_prompt, lines 56-95: the loop over the nodes from node i on
PromptFrom(node_iterable, i, prompt_so_far, link_map) ==
    IF i > Len(node_iterable) THEN prompt_so_far
    ELSE IF ~IsDict(node_iterable[i])
    THEN PromptFrom(node_iterable, i + 1, prompt_so_far, link_map)
    ELSE PromptFrom(node_iterable, i + 1,
             Put(prompt_so_far, StrOf(Get(node_iterable[i], "id")),
                 PromptEntry(node_iterable[i], link_map)),
             link_map)

\* the nodes to_prompt goes through, lines 39 and 52-55
NodeIterable(wf) ==
    LET nodes == Or(Get(wf, "nodes"), JList(<<>>))
    IN IF IsDict(nodes) THEN nodes.vals
       ELSE IF IsList(nodes) THEN nodes.items
       ELSE <<>>

\* to_prompt
ToPrompt(wf) ==
    PromptFrom(NodeIterable(wf), 1, EmptyDict,
               LinkMapFrom(IF IsList(Get(wf, "links")) THEN Get(wf, "links").items
                           ELSE <<>>,
                           1, EmptyDict))

\* to_prompt called with the workflow apply_parameters has returned
ToPromptCall ==
    /\ compile_pc = "call"
    /\ parser_pc = "returned"
    /\ prompt' = ToPrompt(workflow)
    /\ compile_pc' = "returned"
    /\ UNCHANGED notCompileVars

\* an entry of a sequence of inputs: with or without a link (to a link of the
\* table, or to one that is not in it), a widget declaration, a value field
InputEntries ==
    {JDict(<<"name">> \o l.keys \o w.keys \o v.keys,
           <<JStr(name)>> \o l.vals \o w.vals \o v.vals) :
        name \in {"seed", "steps", "foo"},
        l \in {EmptyDict, JDict(<<"link">>, <<JInt(1)>>), JDict(<<"link">>, <<JInt(9)>>)},
        w \in {EmptyDict, JDict(<<"widget">>, <<JDict(<<"name">>, <<JStr("w")>>)>>)},
        v \in {EmptyDict, JDict(<<"value">>, <<JInt(4)>>)}}

\* sequences of inputs with a name each
InputLists ==
    {ins \in SeqsUpTo(InputEntries, MaxInputs) :
        \A i, j \in 1..Len(ins) : i # j => Get(ins[i], "name") # Get(ins[j], "name")}

\* nodes with a sequence of inputs: of a class of the table, of another class,
\* without a class; with no widget value, one, and three
InputNodes ==
    {JDict(<<"id">> \o c.keys \o <<"widgets_values", "inputs">>,
           <<JInt(3)>> \o c.vals \o <<JList(widgets), JList(ins)>>) :
        c \in {EmptyDict, JDict(<<"type">>, <<JStr("KSampler")>>),
               JDict(<<"class_type">>, <<JStr("Custom")>>)},
        widgets \in {<<>>, <<JInt(5)>>, <<JInt(5), JStr("fixed"), JInt(6)>>},
        ins \in InputLists}

\* the links of the documents compiled: link 1 from slot 0 of node 7, and an
\* entry for link 9 that is too short to count
CompileLinks ==
    JList(<<JList(<<JInt(1), JInt(7), JInt(0), JInt(3), JInt(0)>>),
            JList(<<JInt(9), JInt(7), JInt(0)>>)>>)

\* the documents compiled: one node with a sequence of inputs, and the
\* workflows of the overrides with the links added
CompileWorkflows ==
    {JDict(<<"nodes", "links">>, <<JList(<<node>>), CompileLinks>>) :
        node \in InputNodes}
    \cup {Put(wf, "links", CompileLinks) : wf \in Workflows}

\* apply_parameters is called without parameters, then to_prompt
CompileInit ==
    /\ EnhancerIdle
    /\ SegIdle
    /\ FadeIdle
    /\ OnceIdle
    /\ parser_pc = "call"
    /\ workflow \in CompileWorkflows
    /\ workflow_given = workflow
    /\ parameters = <<>>
    /\ param_pos = 0
    /\ parser_log = <<>>
    /\ compile_pc = "call"
    /\ prompt = <<>>

CompileNext == ParserCall \/ ParserReturn \/ ToPromptCall

CompileSpec == CompileInit /\ [][CompileNext]_vars

\* ---- what compile is to emit for a node, stated entry by entry ----

\* the entries of the link table that carry the link id: complete entries of
\* the links of the document
LinkEntries(wf, link_id) ==
    {e \in Range(IF IsList(Get(wf, "links")) THEN Get(wf, "links").items ELSE <<>>) :
        IsList(e) /\ Len(e.items) >= 5 /\ e.items[1] = link_id}

\* the place the table of the node's class gives the input name, 0 for none
TablePlace(node, name) ==
    IF IsStr(ClassTypeOf(node)) /\ IsStr(name)
    THEN First(Len(WidgetSequences(ClassTypeOf(node).s)),
               LAMBDA k : WidgetSequences(ClassTypeOf(node).s)[k] = name.s)
    ELSE 0

\* how many entries before entry i declare a widget
WidgetsBefore(entries, i) ==
    Cardinality({j \in 1..(i - 1) : IsDict(entries[j]) /\ IsDict(Get(entries[j], "widget"))})

\* the payload entry of the node holds value v for the input name
Emits(entry, name, v) ==
    Has(Get(entry, "inputs"), NameKey(name)) /\ Get(Get(entry, "inputs"), NameKey(name)) = v

\* the first tier that has a value for entry i of the node's sequence of
\* inputs: "link" when its link id is in the link table, else "table" when the
\* table of the class places the name inside the widget values, else "widget"
\* when it declares a widget and a positional widget value is left, else
\* "value" when it has a value field, else "none"
Tier(wf, node, i) ==
    LET inp == Get(node, "inputs").items[i] IN
    IF Get(inp, "link") # JNone /\ LinkEntries(wf, Get(inp, "link")) # {} THEN "link"
    ELSE IF /\ TablePlace(node, Get(inp, "name")) > 0
            /\ TablePlace(node, Get(inp, "name")) <= Len(WidgetsOf(node)) THEN "table"
    ELSE IF /\ IsDict(Get(inp, "widget"))
            /\ WidgetsBefore(Get(node, "inputs").items, i) < Len(WidgetsOf(node))
         THEN "widget"
    ELSE IF Has(inp, "value") THEN "value"
    ELSE "none"

\* the nodes of the compiled workflow with a sequence of inputs of distinct
\* names
SequenceNodes ==
    {node \in Range(NodeIterable(workflow)) :
        /\ IsDict(node)
        /\ IsList(Get(node, "inputs"))
        /\ \A i \in 1..Len(Get(node, "inputs").items) :
              /\ IsDict(Get(node, "inputs").items[i])
              /\ IsStr(Get(Get(node, "inputs").items[i], "name"))
              /\ \A j \in 1..(i - 1) :
                    Get(Get(node, "inputs").items[j], "name")
                        # Get(Get(node, "inputs").items[i], "name")}

\* C22: in the payload compile returned, every entry of a sequence of inputs
\* is resolved by the first tier that has a value for it: the
\* [from_node_id, from_slot] pair of its link; else the widget value at the
\* place the table of the class gives its name; else the next positional
\* widget value; else its value field; else the input is left out. A class
\* that is not in the table has no table tier. A mapping of inputs is emitted
\* as it is
C22_FixedPrecedence ==
    compile_pc = "returned" =>
        /\ \A node \in SequenceNodes :
            \A out \in {Get(prompt, StrOf(Get(node, "id")))} :
              \A i \in 1..Len(Get(node, "inputs").items) :
                \A inp \in {Get(node, "inputs").items[i]} :
                  \A tier \in {Tier(workflow, node, i)} :
                    /\ tier = "link" =>
                         \E e \in LinkEntries(workflow, Get(inp, "link")) :
                            Emits(out, Get(inp, "name"),
                                  JList(<<JStr(StrOf(e.items[2])), e.items[3]>>))
                    /\ tier = "table" =>
                         Emits(out, Get(inp, "name"),
                               WidgetsOf(node)[TablePlace(node, Get(inp, "name"))])
                    /\ tier = "widget" =>
                         Emits(out, Get(inp, "name"),
                               WidgetsOf(node)[WidgetsBefore(Get(node, "inputs").items, i) + 1])
                    /\ tier = "value" => Emits(out, Get(inp, "name"), Get(inp, "value"))
                    /\ tier = "none" => ~Has(Get(out, "inputs"), NameKey(Get(inp, "name")))
        /\ \A node \in Range(NodeIterable(workflow)) :
              (IsDict(node) /\ IsDict(Get(node, "inputs"))
                   /\ Cardinality({n \in Range(NodeIterable(workflow)) :
                                     IsDict(n) /\ StrOf(Get(n, "id")) = StrOf(Get(node, "id"))}) = 1) =>
                  Get(Get(prompt, StrOf(Get(node, "id"))), "inputs") = Get(node, "inputs")

\* compile returned a payload for a node whose sequence holds an input the
\* class table resolves to a widget value that is not the positional one, and
\* an input of a class without a table resolved positionally
C22_Witness ==
    /\ compile_pc = "returned"
    /\ \E node \in SequenceNodes :
          \E i \in 1..Len(Get(node, "inputs").items) :
              /\ Tier(workflow, node, i) = "table"
              /\ IsDict(Get(Get(node, "inputs").items[i], "widget"))
              /\ WidgetsBefore(Get(node, "inputs").items, i) < Len(WidgetsOf(node))
              /\ WidgetsOf(node)[TablePlace(node, Get(Get(node, "inputs").items[i], "name"))]
                    # WidgetsOf(node)[WidgetsBefore(Get(node, "inputs").items, i) + 1]
              /\ Emits(Get(prompt, StrOf(Get(node, "id"))),
                       Get(Get(node, "inputs").items[i], "name"),
                       WidgetsOf(node)[TablePlace(node, Get(Get(node, "inputs").items[i], "name"))])

\* ------------------------------------------------------ stop flag claims
\* the jobs the current run has handed to the server
Submitted == EventsOf("submit")

\* C23: once the stop flag is set no step of the run submits a new job: a
\* stop click delivered by a layer insertion, a hole punch or a poll tick meets
\* a check of the flag before the next submission
C23_NoSubmitAfterStop ==
    [][cancel_requested => Len(Submitted') = Len(Submitted)]_vars

\* C24: when a run has ended, on whatever path, every region whose hole was
\* punched into the global layer has its region layer inserted over the hole
C24_HolesCovered ==
    (run_pc \in {"handler_end", "ended"}) =>
        \A i \in 1..Len(region_rects) :
            Ev("punch", i) \in Range(events) => Ev("insert", i) \in Range(events)

\* C26: the payload compile returned has one entry for every node of the
\* normalized document and no other, each under the key the normalisation
\* gave the node (its id, else its place in the sequence) and with the class of
\* that node; nodes without an id included
C26_OneEntryPerNode ==
    compile_pc = "returned" =>
        \A nodes \in {Or(Get(workflow, "nodes"), EmptyDict)} :
            /\ \A i \in 1..Len(nodes.vals) :
                  IsDict(nodes.vals[i]) =>
                      /\ Has(prompt, nodes.keys[i])
                      /\ Get(Get(prompt, nodes.keys[i]), "class_type")
                            = ClassTypeOf(nodes.vals[i])
            /\ Len(prompt.keys)
                  = Cardinality({i \in 1..Len(nodes.vals) : IsDict(nodes.vals[i])})

\* ------------------------------------- an override, then the compilation
\* overrides of one segment: names of inputs, and identifiers of nodes
InputParams ==
    {Param(<<t>>, v) : t \in {"seed", "cfg", "image", "steps", "foo", "B", "3"},
                       v \in {JStr("7"), JStr("0.2"), JStr("auto"), JInt(4)}}

\* the documents overridden and compiled: the workflows of the overrides, and
\* a sampler whose inputs are a sequence
InputWorkflows ==
    Workflows
    \cup {ListWorkflow(<<node>>) :
            node \in {n \in InputNodes :
                        /\ Get(n, "type") = JStr("KSampler")
                        /\ Len(Get(n, "widgets_values").items) = 3
                        /\ \A i \in 1..Len(Get(n, "inputs").items) :
                              ~Has(Get(n, "inputs").items[i], "link")}}

\* apply_parameters is called with one override of one segment, then to_prompt
InputOverrideInit ==
    /\ EnhancerIdle
    /\ SegIdle
    /\ FadeIdle
    /\ OnceIdle
    /\ parser_pc = "call"
    /\ workflow \in InputWorkflows
    /\ workflow_given = workflow
    /\ parameters \in {<<p>> : p \in InputParams}
    /\ param_pos = 0
    /\ parser_log = <<>>
    /\ compile_pc = "call"
    /\ prompt = <<>>

InputOverrideNext == ParserCall \/ ParserParam \/ ParserReturn \/ ToPromptCall

InputOverrideSpec == InputOverrideInit /\ [][InputOverrideNext]_vars

\* the nodes of the normalized document given that have an input of the name
NodesWithInput(name) ==
    {i \in 1..Len(Or(Get(NormalizeNodes(workflow_given), "nodes"), EmptyDict).vals) :
        NodeTakesInput(Get(NormalizeNodes(workflow_given), "nodes").vals[i], name)}

\* C25: after an override of one segment that is the name of an input of some
\* node, the compiled payload holds the converted value for that input on a
\* node that has the input; the override falls back to a node identifier and
\* its first widget value only when no node has an input of that name
C25_InputOverrideCompiled ==
    (compile_pc = "returned" /\ NodesWithInput(parameters[1].target[1]) # {}) =>
        /\ \E k \in 1..Len(prompt.vals) :
              Emits(prompt.vals[k], JStr(parameters[1].target[1]),
                    ConvertValue(parameters[1].value))
        /\ \A i \in 1..Len(Get(workflow, "nodes").vals) :
              Get(Get(workflow, "nodes").vals[i], "widgets_values")
                = Get(Get(NormalizeNodes(workflow_given), "nodes").vals[i],
                      "widgets_values")

\* ------------------------------------------------------- locating a node
\* nodes that share identifiers: a class K; a node named K of class L; a node
\* whose title is the id of another; a node titled K
LocateNodes ==
    {JDict(<<"id", "type">>, <<JInt(1), JStr("K")>>),
     JDict(<<"id", "name", "type">>, <<JInt(2), JStr("K"), JStr("L")>>),
     JDict(<<"id", "title", "class_type">>, <<JInt(3), JStr("2"), JStr("K")>>),
     JDict(<<"id", "title">>, <<JInt(4), JStr("K")>>)}

\* the identifiers a node is looked up by
LocateIdentifiers == {"K", "L", "1", "2", "9"}

\* the key an override writes on the node its first segment locates
Mark == "hit"

\* apply_parameters is called with one override that marks the node its first
\* segment locates, on a document whose nodes are a sequence
LocateInit ==
    /\ EnhancerIdle
    /\ SegIdle
    /\ FadeIdle
    /\ OnceIdle
    /\ CompileIdle
    /\ parser_pc = "call"
    /\ workflow \in {ListWorkflow(items) : items \in SeqsUpTo(LocateNodes, MaxNodes)}
    /\ workflow_given = workflow
    /\ parameters \in {<<Param(<<i, Mark>>, JInt(4))>> : i \in LocateIdentifiers}
    /\ param_pos = 0
    /\ parser_log = <<>>

LocateSpec == LocateInit /\ [][ParserNext]_vars

\* the node the criteria locate when each is tried on the whole mapping before
\* the next: the key, then name or title, then type or class; 0 for none
ByCriteria(nodes, identifier) ==
    IF Has(nodes, identifier) THEN KeyPos(nodes, identifier)
    ELSE IF \E i \in 1..Len(nodes.vals) :
               \/ Get(nodes.vals[i], "name") = JStr(identifier)
               \/ Get(nodes.vals[i], "title") = JStr(identifier)
    THEN First(Len(nodes.vals),
               LAMBDA i : \/ Get(nodes.vals[i], "name") = JStr(identifier)
                          \/ Get(nodes.vals[i], "title") = JStr(identifier))
    ELSE First(Len(nodes.vals),
               LAMBDA i : ClassTypeOf(nodes.vals[i]) = JStr(identifier))

\* the positions of the nodes mapping that carry the mark
Marked == {i \in 1..Len(Get(workflow, "nodes").vals) :
              Has(Get(workflow, "nodes").vals[i], Mark)}

\* C27: the node an identifier locates is the one under that key; else the
\* first node of the mapping whose name or title is the identifier; else the
\* first whose type or class is the identifier, wherever the nodes stand
C27_CriteriaInOrder ==
    parser_pc = "returned" =>
        \A at \in {ByCriteria(Get(NormalizeNodes(workflow_given), "nodes"),
                              parameters[1].target[1])} :
            Marked = IF at = 0 THEN {} ELSE {at}

\* ---------------------------------------------------------- _inject_image
\* the class names of the nodes, letter by letter
Letters(s) ==
    CASE s = "LoadImage" -> <<"L", "o", "a", "d", "I", "m", "a", "g", "e">>
      [] s = "My Load Image" ->
             <<"M", "y", " ", "L", "o", "a", "d", " ", "I", "m", "a", "g", "e">>
      [] s = "PreviewImage" ->
             <<"P", "r", "e", "v", "i", "e", "w", "I", "m", "a", "g", "e">>
      [] s = "loadimage" -> <<"l", "o", "a", "d", "i", "m", "a", "g", "e">>
      [] s = "load image" -> <<"l", "o", "a", "d", " ", "i", "m", "a", "g", "e">>
      [] OTHER -> <<s>>

\* str.lower() on the letters
Lower(c) ==
    [i \in 1..Len(c) |->
        CASE c[i] = "L" -> "l" [] c[i] = "I" -> "i" [] c[i] = "M" -> "m"
          [] c[i] = "P" -> "p" [] OTHER -> c[i]]

\* c.find(sub) >= 0
Finds(c, sub) ==
    \E k \in 0..(Len(c) - Len(sub)) : SubSeq(c, k + 1, k + Len(sub)) = sub

\* the class test of _find_load_image_node, lines 575, 577
LoadImageClass(node) ==
    \E ctype \in {Or(Or(Get(node, "class_type"), Get(node, "type")), JStr(""))} :
        \/ Finds(Lower(Letters(ctype.s)), Letters("loadimage"))
        \/ Finds(Lower(Letters(ctype.s)), Letters("load image"))

\* the input test of _find_load_image_node, lines 576, 579
HasImageInput(node) ==
    \E inputs \in {Or(Get(node, "inputs"), EmptyDict)} :
        IsDict(inputs) /\ Has(inputs, "image")

\* _find_load_image_node with the enhancer's _find_node: the position of the
\* node in the nodes mapping, 0 for none
FindLoadImageNode(nodes) ==
    IF Has(nodes, "Load Image") /\ Truthy(Get(nodes, "Load Image"))
    THEN KeyPos(nodes, "Load Image")
    ELSE IF First(Len(nodes.vals),
                  LAMBDA i : /\ IsDict(nodes.vals[i])
                             /\ Get(nodes.vals[i], "name") = JStr("Load Image")
                             /\ Truthy(nodes.vals[i])) # 0
    THEN First(Len(nodes.vals),
               LAMBDA i : /\ IsDict(nodes.vals[i])
                          /\ Get(nodes.vals[i], "name") = JStr("Load Image"))
    ELSE First(Len(nodes.vals),
               LAMBDA i : /\ IsDict(nodes.vals[i])
                          /\ LoadImageClass(nodes.vals[i]) \/ HasImageInput(nodes.vals[i]))

\* lines 505-516: the node after the path was put into it
WithImage(node, image_path) ==
    LET inputs == IF Has(node, "inputs") THEN Get(node, "inputs") ELSE EmptyDict
        widgets == Get(node, "widgets_values")
    IN IF ~IsDict(inputs)
       THEN IF IsList(widgets) /\ widgets.items # <<>>
            THEN Put(node, "widgets_values",
                     JList([widgets.items EXCEPT ![1] = JStr(image_path)]))
            ELSE node
       ELSE Put(node, "inputs", Put(inputs, "image", JStr(image_path)))

\* the path of the exported image
ImagePath == "in.jpg"

\* _inject_image
InjectImage ==
    /\ parser_pc = "inject"
    /\ \E nodes \in {Or(Get(workflow, "nodes"), EmptyDict)} :
         \E at \in {FindLoadImageNode(nodes)} :
            workflow' = IF at = 0 THEN workflow
                        ELSE WithNode(workflow, at, WithImage(nodes.vals[at], ImagePath))
    /\ parser_pc' = "injected"
    /\ UNCHANGED <<workflow_given, parameters, param_pos, parser_log>>
    /\ UNCHANGED notParserVars

\* nodes of the documents an image is injected into: named "Load Image" with
\* mapping inputs and with a sequence of inputs; of a load image class with
\* mapping inputs and with widget values; with a bare image input; without
\* any of these
ImageNodes ==
    {JDict(<<"id", "name", "inputs">>, <<JInt(1), JStr("Load Image"), EmptyDict>>),
     JDict(<<"id", "name", "inputs", "widgets_values">>,
           <<JInt(2), JStr("Load Image"), JList(<<>>), JList(<<JStr("old.png")>>)>>),
     JDict(<<"id", "class_type", "inputs">>,
           <<JInt(3), JStr("LoadImage"), JDict(<<"image">>, <<JStr("old.png")>>)>>),
     JDict(<<"id", "type", "inputs", "widgets_values">>,
           <<JInt(4), JStr("My Load Image"), JList(<<>>),
             JList(<<JStr("old.png"), JStr("image")>>)>>),
     JDict(<<"id", "class_type", "inputs">>,
           <<JInt(5), JStr("PreviewImage"),
             JDict(<<"image">>, <<JList(<<JStr("3"), JInt(0)>>)>>)>>),
     JDict(<<"id", "type", "inputs">>,
           <<JInt(6), JStr("KSampler"), JDict(<<"seed">>, <<JInt(1)>>)>>),
     JDict(<<"id", "type">>, <<JInt(7), JStr("LoadImage")>>),
     Junk}

\* _prepare_workflow has loaded a workflow, which load normalizes, and calls
\* _inject_image
InjectInit ==
    /\ EnhancerIdle
    /\ SegIdle
    /\ FadeIdle
    /\ OnceIdle
    /\ CompileIdle
    /\ parser_pc = "inject"
    /\ workflow \in {NormalizeNodes(ListWorkflow(items)) :
                        items \in SeqsUpTo(ImageNodes, MaxNodes)}
                   \cup {JDict(<<"nodes">>, <<JDict(<<"9", "Load Image">>, <<n, m>>)>>) :
                           n \in ImageNodes \ {Junk}, m \in ImageNodes \ {Junk}}
    /\ workflow_given = workflow
    /\ parameters = <<>>
    /\ param_pos = 0
    /\ parser_log = <<>>

InjectSpec == InjectInit /\ [][InjectImage]_vars

\* the node the criteria pick when each is tried on the whole document before
\* the next: the key or name "Load Image", then the class, then the image
\* input; 0 for none
ImageTarget(nodes) ==
    IF Has(nodes, "Load Image") THEN KeyPos(nodes, "Load Image")
    ELSE IF \E i \in 1..Len(nodes.vals) : Get(nodes.vals[i], "name") = JStr("Load Image")
    THEN First(Len(nodes.vals),
               LAMBDA i : Get(nodes.vals[i], "name") = JStr("Load Image"))
    ELSE IF \E i \in 1..Len(nodes.vals) : LoadImageClass(nodes.vals[i])
    THEN First(Len(nodes.vals), LAMBDA i : LoadImageClass(nodes.vals[i]))
    ELSE First(Len(nodes.vals), LAMBDA i : HasImageInput(nodes.vals[i]))

\* C28: the image goes to the first node named "Load Image", else to the first
\* node of a load image class, else to the first node with an image input: a
\* node that merely has an image input is not chosen while a node of a load
\* image class exists. The chosen node gets the path as its image input, or
\* as its first widget value when its inputs are no mapping, and every other
\* node stays as it was
C28_ImageTargetInOrder ==
    parser_pc = "injected" =>
        \A nodes \in {Get(workflow_given, "nodes")} :
            \A at \in {ImageTarget(nodes)} :
                /\ at # 0 => Get(workflow, "nodes").vals[at]
                                = WithImage(nodes.vals[at], ImagePath)
                /\ \A i \in 1..Len(nodes.vals) :
                      i # at => Get(workflow, "nodes").vals[i] = nodes.vals[i]

\* ------------------------------------------------ _get_region_rectangles
\* the extent of the selection, which is the whole document
Extent == RegionRect(0, 0, MaskWidth, 1)

\* what a method of the selection object does: it is "absent", it raises
\* ("raise"), or it answers ("ok") with its value
Method(kind, value) == [kind |-> kind, value |-> value]

\* lines 438-444: the rectangles the selection lists itself
NativeRects(sel) ==
    IF sel.rectangles.kind = "ok" THEN sel.rectangles.value ELSE <<>>

\* the later parts tried with the accessors before the bounding rectangle
FallbackAccessorsFirst(sel) ==
    IF sel.accessors.kind = "ok"
    THEN [tier |-> "accessors", rects |-> <<sel.accessors.value>>]
    ELSE IF sel.boundingRect.kind = "ok"
    THEN [tier |-> "bounding", rects |-> <<sel.boundingRect.value>>]
    ELSE [tier |-> "none", rects |-> <<>>]

\* lines 449-461: with rects still empty, boundingRect, then x, y, width and
\* height
Fallback(sel) ==
    IF sel.boundingRect.kind = "ok"
    THEN [tier |-> "bounding", rects |-> <<sel.boundingRect.value>>]
    ELSE IF sel.accessors.kind = "ok"
    THEN [tier |-> "accessors", rects |-> <<sel.accessors.value>>]
    ELSE [tier |-> "none", rects |-> <<>>]

\* lines 432-447, up to the call of _extract_mask_components, and its lines
\* 945-960: the bounds are those of boundingRect, or the document's
RegionsCall ==
    /\ rects_pc = "call"
    /\ IF ~selection.present
       THEN /\ region_list' = <<>>
            /\ tier_used' = "none"
            /\ rects_pc' = "returned"
            /\ UNCHANGED segVars
       ELSE IF NativeRects(selection) # <<>>
       THEN /\ region_list' = NativeRects(selection)
            /\ tier_used' = "rectangles"
            /\ rects_pc' = "returned"
            /\ UNCHANGED segVars
       ELSE /\ rects_pc' = "components"
            /\ seg_pc' = "call"
            /\ bounds' = [x0 |-> Extent.x, y0 |-> Extent.y,
                          width |-> Extent.width, height |-> Extent.height]
            /\ buf' = selection.pixelData
            /\ UNCHANGED <<region_list, tier_used, visited, seg_idx, components>>
    /\ UNCHANGED selection
    /\ UNCHANGED notRectsVars

\* lines 446-466, from the return of _extract_mask_components
RegionsFallback ==
    /\ rects_pc = "components"
    /\ seg_pc = "returned"
    /\ IF components # <<>>
       THEN /\ region_list' = components
            /\ tier_used' = "components"
       ELSE /\ region_list' = Fallback(selection).rects
            /\ tier_used' = Fallback(selection).tier
    /\ rects_pc' = "returned"
    /\ UNCHANGED <<selection, segVars>>
    /\ UNCHANGED notRectsVars

\* the selections of a document: none; or one that lists no, one or two
\* rectangles, has no such method, or raises in it; whose pixelData gives no
\* data or a row of alpha 0 or 255; with and without boundingRect and the
\* four accessors, working or raising
Selections ==
    {[present |-> FALSE, rectangles |-> Method("absent", <<>>), pixelData |-> <<>>,
      boundingRect |-> Method("absent", Extent), accessors |-> Method("absent", Extent)]}
    \cup [present : {TRUE},
          rectangles : {Method("absent", <<>>), Method("raise", <<>>),
                        Method("ok", <<>>),
                        Method("ok", <<RegionRect(0, 0, 1, 1)>>),
                        Method("ok", <<RegionRect(2, 0, 1, 1), RegionRect(0, 0, 1, 1)>>)},
          pixelData : {<<>>} \cup [1..MaskWidth -> {0, 255}],
          boundingRect : {Method(k, Extent) : k \in {"absent", "raise", "ok"}},
          accessors : {Method(k, Extent) : k \in {"absent", "raise", "ok"}}]

\* _get_region_rectangles is called on a document
RegionsInit ==
    /\ RunIdle
    /\ ParserIdle
    /\ SegIdle
    /\ FadeIdle
    /\ OnceIdle
    /\ CompileIdle
    /\ rects_pc = "call"
    /\ selection \in Selections
    /\ region_list = <<>>
    /\ tier_used = "none"

RegionsNext == RegionsCall \/ SegStart \/ SegComponent \/ SegReturn \/ RegionsFallback

RegionsSpec == RegionsInit /\ [][RegionsNext]_vars

\* the mask of the selection has a selected pixel
HasSelectedPixel ==
    \E i \in 1..Len(selection.pixelData) : selection.pixelData[i] # 0

\* C29 as stated: the regions come from the first part the selection offers,
\* and a later part is used only for a selection that does not offer the
\* earlier ones: the bounding rectangle only without pixel data
C29_FirstTierOffered ==
    rects_pc = "returned" =>
        /\ tier_used = "components" => selection.rectangles.kind = "absent"
        /\ tier_used = "bounding" =>
              /\ selection.rectangles.kind = "absent"
              /\ selection.pixelData = <<>>
        /\ tier_used = "accessors" =>
              /\ selection.rectangles.kind = "absent"
              /\ selection.pixelData = <<>>
              /\ selection.boundingRect.kind = "absent"

\* C29: the regions of a selection come from the first part that yields one:
\* the rectangles it lists; else the components of its mask; else its bounding
\* rectangle; else its x, y, width and height; a part that is absent, raises
\* or yields nothing leaves the next one to try, and when none yields a region
\* the list returned is empty
C29_FirstTierYielding ==
    (rects_pc = "returned" /\ selection.present) =>
        /\ NativeRects(selection) # <<>> =>
              /\ tier_used = "rectangles"
              /\ region_list = NativeRects(selection)
              /\ seg_pc = "off"
        /\ (NativeRects(selection) = <<>> /\ HasSelectedPixel) =>
              /\ tier_used = "components"
              /\ region_list = components
              /\ region_list # <<>>
        /\ (NativeRects(selection) = <<>> /\ ~HasSelectedPixel) =>
              /\ seg_pc = "returned"
              /\ components = <<>>
              /\ IF selection.boundingRect.kind = "ok"
                 THEN /\ tier_used = "bounding"
                      /\ region_list = <<selection.boundingRect.value>>
                 ELSE IF selection.accessors.kind = "ok"
                 THEN /\ tier_used = "accessors"
                      /\ region_list = <<selection.accessors.value>>
                 ELSE /\ tier_used = "none"
                      /\ region_list = <<>>

\* a selection that lists no rectangle and whose mask holds no selected pixel
\* got its bounding rectangle as its region
C29_Witness ==
    /\ rects_pc = "returned"
    /\ selection.rectangles.kind = "ok"
    /\ selection.pixelData # <<>>
    /\ tier_used = "bounding"
    /\ region_list = <<Extent>>

\* ------------------------------------- requests made while no run is active
\* _on_stop_clicked while no run is active; the client of the last run, if
\* there was one, is sent the interrupt
StopWhileIdle ==
    /\ run_pc \in {"idle", "ended"}
    /\ cancel_requested' = TRUE
    /\ status' = "Stopping..."
    /\ interrupted' = (interrupted \/ run_pc = "ended")
    /\ UNCHANGED <<running, stop_seen>>
    /\ UNCHANGED <<libVars, cfgVars, pollVars, runVars>>

\* _on_cancel_clicked while no run is active
CancelWhileIdle ==
    /\ run_pc \in {"idle", "ended"}
    /\ cancel_requested' = TRUE
    /\ UNCHANGED <<running, status, interrupted, stop_seen>>
    /\ UNCHANGED <<libVars, cfgVars, pollVars, runVars>>

\* the enhancer with the enhance, stop and cancel handlers called in any order
EventNext == Next \/ StopWhileIdle \/ CancelWhileIdle

EventSpec == Init /\ [][EventNext]_vars

\* a run is in progress
RunActive == run_pc \notin {"idle", "ended"}

\* C30: a run begins with the stop flag cleared; while no stop request was
\* made during the run the flag stays false and the run is not cancelled,
\* whatever was requested before it began; and the step that ends a run leaves
\* the flag false
C30_RunStartsUncancelled ==
    [][/\ (~RunActive /\ RunActive') => ~cancel_requested'
       /\ (RunActive' /\ ~stop_seen') =>
              /\ ~cancel_requested'
              /\ status' # "Cancelled"
              /\ run_exc' # ExcCancelled
       /\ (RunActive /\ ~RunActive') => ~cancel_requested']_vars

\* a run after a stop or cancel request made before it began goes through its
\* regions and ends with no cancellation
C30_Witness ==
    /\ stopped_before
    /\ ~stop_seen
    /\ run_pc = "ended"
    /\ Ev("insert", 1) \in Range(events)
    /\ status = "Done"
    /\ ~cancel_requested

====
